---- MODULE Spec2Model ----
(***************************************************************************)
(* Session/Message store of the chatbot backend (chatMySqlController):     *)
(* the chat_sessions and chat_messages tables behind a mysql2 pool, and    *)
(* the request handlers that read and write them.  Every `await` of a      *)
(* handler is a step of its own, so handlers of concurrent requests        *)
(* interleave at exactly the points where the Node.js event loop can       *)
(* switch between them.                                                    *)
(***************************************************************************)
EXTENDS Integers, Sequences, FiniteSets, TLC

\* ---------------------------------------------------------------- bounds
MaxRequests == 2       \* requests that arrive in one run
MaxClock == 2          \* distinct values NOW() takes

\* the request handlers that can be in flight at the same time
Procs == {1, 2}

\* ------------------------------------------------------------- JS values
\* A JSON body field: its JS type and its String() form as a sequence of
\* characters.
Undefined == [t |-> "undefined", s |-> <<"u","n","d","e","f","i","n","e","d">>]
Str(chars) == [t |-> "string", s |-> chars]
Num(chars) == [t |-> "number", s |-> chars]

\* JS truthiness: `!v` is true for undefined, "" and 0.
Truthy(v) ==
  CASE v.t = "undefined" -> FALSE
    [] v.t = "string" -> v.s # <<>>
    [] OTHER -> v.s # <<"0">>

Digits == <<"0","1","2","3","4","5","6","7","8","9">>
IsDigit(c) == \E i \in 1..10 : Digits[i] = c
DigitVal(c) == (CHOOSE i \in 1..10 : Digits[i] = c) - 1

RECURSIVE SkipWs(_)
SkipWs(s) == IF s # <<>> /\ Head(s) = " " THEN SkipWs(Tail(s)) ELSE s

RECURSIVE DigitsPrefix(_)
DigitsPrefix(s) ==
  IF s # <<>> /\ IsDigit(Head(s)) THEN <<Head(s)>> \o DigitsPrefix(Tail(s)) ELSE <<>>

RECURSIVE DigitsValue(_, _)
DigitsValue(s, acc) ==
  IF s = <<>> THEN acc ELSE DigitsValue(Tail(s), 10 * acc + DigitVal(Head(s)))

NaN == [nan |-> TRUE, n |-> 0]

\* parseInt(v): String(v), leading blanks skipped, an optional sign, then the
\* longest prefix of decimal digits; NaN when that prefix is empty.  What
\* follows the digits is ignored.
ParseInt(v) ==
  LET t == SkipWs(v.s)
      signed == t # <<>> /\ Head(t) \in {"+", "-"}
      body == IF signed THEN Tail(t) ELSE t
      d == DigitsPrefix(body)
      mag == DigitsValue(d, 0)
  IN IF d = <<>> THEN NaN
     ELSE [nan |-> FALSE, n |-> IF signed /\ Head(t) = "-" THEN 0 - mag ELSE mag]

\* String.prototype.toLowerCase on the letters the inputs use.
LowerOf(c) ==
  CASE c = "M" -> "m" [] c = "E" -> "e" [] c = "N" -> "n" [] c = "U" -> "u"
    [] c = "H" -> "h" [] c = "I" -> "i" [] OTHER -> c
ToLowerCase(s) == [i \in 1..Len(s) |-> LowerOf(s[i])]

\* String.prototype.includes
Includes(s, kw) ==
  \E i \in 0..(Len(s) - Len(kw)) : \A j \in 1..Len(kw) : s[i + j] = kw[j]

\* The keywords of foodKeywords that plain ASCII texts can contain.
FoodKeywords ==
  { <<"c","a","f","e">>, <<"c","o","f","f","e","e">>, <<"m","e","n","u">> }

\* isFoodRelatedQuery(message): message.toLowerCase() throws a TypeError when
\* message is not a string.
FoodQueryThrows(v) == v.t # "string"
IsFoodRelatedQuery(v) == \E kw \in FoodKeywords : Includes(ToLowerCase(v.s), kw)

\* --------------------------------------------------------- request inputs
\* rows of the users table (never written by this system)
Users == {1}

UserIdInputs ==
  { Undefined, Num(<<"0">>), Num(<<"1">>), Num(<<"2">>), Num(<<"1",".","5">>),
    Str(<<>>), Str(<<"1">>), Str(<<"1","a">>), Str(<<"a","1">>), Str(<<" ","2">>) }


\* sender of a request body: "" stands for an omitted (falsy) sender
SenderInputs == {"", "user", "admin"}

MessageInputs ==
  { Undefined, Str(<<>>), Str(<<"h","i">>), Str(<<"M","e","n","u">>), Num(<<"5">>) }

\* ---------------------------------------------------------- Reply Generator
CompletionText == <<"o","k">>
\* completion.choices[0]?.message?.content || "Xin loi, toi chua hieu y ban"
NotUnderstood == <<"c","h","u","a"," ","h","i","e","u">>
\* the catch branch of chatWithOpenAI
Overloaded == <<"q","u","a"," ","t","a","i">>

\* What the upstream completion call can do.
Upstream == {"content", "empty", "fails"}

\* chatWithOpenAI with one fallback for both cases
MutChatWithOpenAI(outcome) ==
  CASE outcome = "content" -> CompletionText
    [] OTHER -> NotUnderstood

ChatWithOpenAI(outcome) ==
  CASE outcome = "content" -> CompletionText
    [] outcome = "empty" -> NotUnderstood
    [] OTHER -> Overloaded

\* ------------------------------------------------------------------ state
VARIABLES
  sessions,        \* chat_sessions: id -> [user_id, started_at, ended_at]
  messages,        \* chat_messages: id -> [session_id, sender, message, sent_at, turn]
  nextSessionId,   \* AUTO_INCREMENT of chat_sessions
  nextMessageId,   \* AUTO_INCREMENT of chat_messages
  now,             \* the latest value NOW() returned
  pc,              \* handler -> the await it is suspended at
  req,             \* handler -> the request it serves
  loc,             \* handler -> its local variables
  resp,            \* handler -> the response it sent last
  inUse,           \* pool connections checked out by getConnection()
  served,          \* requests that arrived so far
  verify,          \* GET /api/fb/webhook: the request and its response
  fb,              \* POST /api/fb/webhook: the request, its entries, its response
  zp,              \* POST /api/zalo-personal webhook: the request and its response
  zalo,            \* POST /api/zalo/webhook: the request and its response
  chat,            \* POST /api/chat: each handler slot's request, locals and response
  logs,            \* the conversation log file logs.json
  chats,           \* how many POST /api/chat requests have arrived
  menu,            \* the menu file
  admin,           \* GET and POST of the menu: the request and its response
  ai,              \* one call of chatWithOpenAI: its arguments and what it returns
  services         \* which optional modules chatController could load

vars == <<sessions, messages, nextSessionId, nextMessageId, now,
          pc, req, loc, resp, inUse, served, verify, fb, zp,
          zalo, chat, logs, chats, menu, admin, ai, services>>

store == <<sessions, messages, nextSessionId, nextMessageId>>

\* the state of the channel webhooks, which the chat handlers never touch
channels == <<verify, fb, zp, zalo, chat, logs, chats, menu, admin, ai, services>>

\* the state of the flat-file endpoints and of the Zalo OA webhook
site == <<zalo, chat, logs, chats, menu, admin, ai, services>>

\* the state of the session and message handlers
database == <<store, now, pc, req, loc, resp, inUse, served>>

\* The fields of a request its handler reads.
NoReq ==
  [ op |-> "none", user_id |-> Undefined, sid |-> 0, message |-> Undefined,
    user |-> 0 ]            \* :user_id of GET /sessions/user/:user_id

\* stats of getChatStats; the average is the fraction num / den
NoStats ==
  [ totalSessions |-> 0, totalMessages |-> 0, activeUsers |-> 0,
    averageMessagesPerSession |-> [num |-> 0, den |-> 1] ]

NoLoc ==
  [ userId |-> 0,          \* createChatSession: parseInt(user_id)
    message_id |-> 0,      \* sendChatMessage: result.insertId
    replies |-> FALSE,     \* sender === 'user' || !sender
    bot_id |-> 0,          \* id the bot row got (not read by the code)
    aiReply |-> <<>>,
    calledEnrich |-> FALSE, \* getRestaurantInfo was invoked
    calledAI |-> FALSE,     \* chatWithOpenAI was invoked
    upstream |-> "none",    \* what the completion call did
    hasConn |-> FALSE,      \* deleteChatSession: holds a pool connection
    inTx |-> FALSE,         \* its transaction is open
    txMessages |-> {},      \* message rows the open transaction deleted
    txSession |-> FALSE,    \* the open transaction deleted the session row
    affectedRows |-> 0,
    committed |-> FALSE,
    stats |-> NoStats ]    \* getChatStats: the results it has so far

NoResp ==
  [ status |-> 0, id |-> 0, user_id |-> 0, reply |-> <<>>, hasReply |-> FALSE,
    error |-> FALSE, rows |-> <<>>, sessions |-> <<>>, stats |-> NoStats,
    sent |-> 0 ]           \* how many responses the handler has sent

Answer(status) == [NoResp EXCEPT !.status = status]

\* verifyWebhook before a request: what it reads and what it answers
NoVerify ==
  [ pc |-> "idle", env |-> Undefined, mode |-> Undefined, token |-> Undefined,
    challenge |-> Undefined, status |-> 0, body |-> Undefined ]

\* handleWebhook before a request.  entry holds the entries of the body,
\* work what the callback of each entry has done so far.
NoFb ==
  [ pc |-> "idle", object |-> "", hasEntry |-> FALSE, entry |-> <<>>,
    work |-> <<>>, status |-> 0, body |-> "", sent |-> 0 ]

\* gatewayWebhook before a request
NoZp ==
  [ pc |-> "idle", from |-> Undefined, message |-> Undefined, calledAI |-> FALSE,
    reply |-> <<>>, posted |-> <<>>, error |-> "none", status |-> 0, ok |-> FALSE,
    sent |-> 0 ]

\* zaloController.handleWebhook before a request
NoZalo ==
  [ pc |-> "idle", hasSender |-> FALSE, sender |-> Undefined, message |-> Undefined,
    calledAI |-> FALSE, reply |-> <<>>, posted |-> <<>>, error |-> "none",
    status |-> 0, code |-> 0, sent |-> 0 ]

\* An array of log entries: the last `old` entries of those written before
\* the server started, followed by the entries pushed since.  This is the
\* empty array.
EmptyLog == [old |-> 0, recent |-> <<>>]

\* logs.json does not exist.  valid: the text of the file parses as JSON;
\* bytes: its size; hist: the turns written before the server started;
\* writes: the turns whose writeFile has completed since, in the order of
\* completion; lost: entries were dropped other than by slice
NoLogs ==
  [ exists |-> FALSE, valid |-> FALSE, bytes |-> 0, data |-> EmptyLog,
    hist |-> 0, writes |-> <<>>, lost |-> FALSE ]

\* the menu file does not exist.  data is the text of the file; posted is
\* the text of the last POST whose write completed
NoFile == [exists |-> FALSE, data |-> <<>>, posted |-> <<>>]

\* userChat before a request
NoChat ==
  [ pc |-> "idle", turn |-> 0, message |-> Undefined, image |-> FALSE,
    aiReply |-> <<>>, tts |-> "none", voice_url |-> Undefined,
    readFailed |-> FALSE, logs |-> EmptyLog, logged |-> FALSE,
    status |-> 0, path |-> "none", reply |-> <<>>, sent |-> 0 ]

\* every optional require succeeded
AllServices ==
  [ analyzeImage |-> TRUE, createVoiceMp3 |-> TRUE, readMenuFile |-> TRUE,
    searchTrainingData |-> TRUE ]

\* the menu controller before a request
NoAdmin ==
  [ pc |-> "idle", op |-> "", menu |-> Undefined, parsed |-> Undefined,
    read |-> "none", status |-> 0, body |-> Undefined, sent |-> 0 ]

\* chatWithOpenAI before a call
NoAi ==
  [ pc |-> "idle", message |-> Undefined, contextData |-> Undefined,
    request |-> <<>>, calledUpstream |-> FALSE, outcome |-> "none",
    threw |-> FALSE, value |-> <<>> ]

SiteIdle ==
  /\ zalo = NoZalo
  /\ chat = [p \in Procs |-> NoChat]
  /\ logs = NoLogs
  /\ chats = 0
  /\ menu = NoFile
  /\ admin = NoAdmin
  /\ ai = NoAi
  /\ services = AllServices

ChannelsIdle == verify = NoVerify /\ fb = NoFb /\ zp = NoZp /\ SiteIdle

TypeOK ==
  /\ DOMAIN sessions \subseteq 1..(nextSessionId - 1)
  /\ DOMAIN messages \subseteq 1..(nextMessageId - 1)
  /\ now \in 1..MaxClock
  /\ inUse \in Nat
  /\ served \in 0..MaxRequests

\* The database the process starts against: empty, or holding one session of
\* user 1 with one turn, which createChatSession and sendChatMessage produce
\* from the empty one.
InitialStores ==
  LET session == [user_id |-> 1, started_at |-> 1, ended_at |-> 0]
      user == [ session_id |-> 1, sender |-> "user", message |-> <<"h","i">>,
                sent_at |-> 1, turn |-> 1 ]
      bot == [ session_id |-> 1, sender |-> "bot", message |-> CompletionText,
               sent_at |-> 1, turn |-> 1 ]
  IN { [sessions |-> <<>>, messages |-> <<>>],
       [sessions |-> <<session>>, messages |-> <<user, bot>>] }

Init ==
  /\ \E db \in InitialStores :
       /\ sessions = db.sessions
       /\ messages = db.messages
       /\ nextSessionId = Len(db.sessions) + 1
       /\ nextMessageId = Len(db.messages) + 1
  /\ now = 1
  /\ pc = [p \in Procs |-> "idle"]
  /\ req = [p \in Procs |-> NoReq]
  /\ loc = [p \in Procs |-> NoLoc]
  /\ resp = [p \in Procs |-> NoResp]
  /\ inUse = 0
  /\ served = 0
  /\ ChannelsIdle

\* rows of a table without / with one row
Without(table, ids) == [i \in DOMAIN table \ ids |-> table[i]]
WithRow(table, id, row) == [i \in DOMAIN table \cup {id} |-> IF i = id THEN row ELSE table[i]]

\* a handler whose catch sends the error although a response has gone out
MutRespond(p, r) ==
  /\ resp' = [resp EXCEPT ![p] = [r EXCEPT !.sent = IF r.status = 500 THEN 2 ELSE 1]]
  /\ pc' = [pc EXCEPT ![p] = "done"]

\* The handler responds and returns.
Respond(p, r) ==
  /\ resp' = [resp EXCEPT ![p] = [r EXCEPT !.sent = resp[p].sent + 1]]
  /\ pc' = [pc EXCEPT ![p] = "done"]

\* The response has left: the handler's frame is gone.
Return(p) ==
  /\ pc[p] = "done"
  /\ pc' = [pc EXCEPT ![p] = "idle"]
  /\ req' = [req EXCEPT ![p] = NoReq]
  /\ loc' = [loc EXCEPT ![p] = NoLoc]
  /\ resp' = [resp EXCEPT ![p] = NoResp]
  /\ UNCHANGED <<store, now, inUse, served, channels>>

\* Nothing else is looked at between a response and the return that follows
\* it in the same synchronous block.
NoneDone == \A q \in Procs : pc[q] # "done"

\* Handler p is suspended at the await named label, and the event loop is
\* free to resume it.
At(p, label) == NoneDone /\ pc[p] = label

\* A request arrives and takes the lowest idle handler slot (the slots are
\* interchangeable).  The handler's synchronous prefix and its first
\* statement are one step: nothing another handler can see happens between
\* the arrival and that statement.
Free(p) ==
  /\ At(p, "idle")
  /\ \A q \in Procs : q < p => pc[q] # "idle"
  /\ served < MaxRequests

Begin(p, r) ==
  /\ Free(p)
  /\ served' = served + 1
  /\ UNCHANGED channels
  /\ req' = [req EXCEPT ![p] = r]

\* :session_id of a route: the id of a session that was created, or the
\* next one, which never existed
SessionIdParams == 1..nextSessionId

\* session_id of a request body: 0 stands for a missing (falsy) session_id
SessionIdInputs == 0..nextSessionId

\* The first statement of a request throws: the outer catch answers 500.
FirstQueryFails(p, r) ==
  /\ Begin(p, r)
  /\ loc' = [loc EXCEPT ![p] = NoLoc]
  /\ Respond(p, Answer(500))
  /\ UNCHANGED <<store, now, inUse>>

\* A later pool.query throws: the outer catch answers 500.
QueryFails(p, at) ==
  /\ At(p, at)
  /\ Respond(p, Answer(500))
  /\ UNCHANGED <<store, now, req, loc, inUse, served, channels>>

\* NOW() of a statement: the value the previous statement read, or a later
\* one.
Later == now..MaxClock

ReadsNow(t) ==
  /\ t \in Later
  /\ now' = t

\* ------------------------------------------------------ createChatSession
\* The validation of user_id, then SELECT id FROM users WHERE id = ?
CreateStart(p) ==
  /\ Free(p)
  /\ \E user_id \in UserIdInputs :
       /\ Begin(p, [NoReq EXCEPT !.op = "create", !.user_id = user_id])
       /\ IF ~Truthy(user_id)
          THEN /\ Respond(p, Answer(400))
               /\ loc' = [loc EXCEPT ![p] = NoLoc]
          ELSE LET userId == ParseInt(user_id) IN
               IF userId.nan
               THEN /\ Respond(p, Answer(400))
                    /\ loc' = [loc EXCEPT ![p] = NoLoc]
               ELSE /\ loc' = [loc EXCEPT ![p] = [NoLoc EXCEPT !.userId = userId.n]]
                    /\ IF userId.n \notin Users
                       THEN Respond(p, Answer(404))
                       ELSE /\ pc' = [pc EXCEPT ![p] = "c_insert"]
                            /\ resp' = [resp EXCEPT ![p] = NoResp]
       /\ UNCHANGED <<store, now, inUse>>

CreateSelectFails(p) ==
  /\ Free(p)
  /\ \E user_id \in UserIdInputs :
       /\ Truthy(user_id) /\ ~ParseInt(user_id).nan
       /\ FirstQueryFails(p, [NoReq EXCEPT !.op = "create", !.user_id = user_id])

\* The insert under a key generator that hands out the lowest free id.
MutCreateInsert(p) ==
  LET id == CHOOSE i \in 1..nextSessionId :
              i \notin DOMAIN sessions /\ \A j \in 1..(i - 1) : j \in DOMAIN sessions
  IN
  /\ At(p, "c_insert")
  /\ \E t \in Later :
       /\ ReadsNow(t)
       /\ sessions' = WithRow(sessions, id,
                        [user_id |-> loc[p].userId, started_at |-> t, ended_at |-> 0])
  /\ nextSessionId' = IF id = nextSessionId THEN nextSessionId + 1 ELSE nextSessionId
  /\ Respond(p, [Answer(200) EXCEPT !.id = id, !.user_id = loc[p].userId])
  /\ UNCHANGED <<messages, nextMessageId, req, loc, inUse, served, channels>>

\* INSERT INTO chat_sessions (user_id, started_at, ...) VALUES (?, NOW(), ...)
CreateInsert(p) ==
  /\ At(p, "c_insert")
  /\ \E t \in Later :
       /\ ReadsNow(t)
       /\ sessions' = WithRow(sessions, nextSessionId,
                        [user_id |-> loc[p].userId, started_at |-> t, ended_at |-> 0])
  /\ nextSessionId' = nextSessionId + 1
  /\ Respond(p, [Answer(200) EXCEPT !.id = nextSessionId, !.user_id = loc[p].userId])
  /\ UNCHANGED <<messages, nextMessageId, req, loc, inUse, served, channels>>

CreateChatSession(p) ==
  \/ CreateStart(p)
  \/ CreateSelectFails(p)
  \/ CreateInsert(p)
  \/ QueryFails(p, "c_insert")

\* --------------------------------------------------------- row locks
\* A DELETE inside an open transaction keeps the rows it removed locked
\* until COMMIT or ROLLBACK: a statement of another connection that writes
\* one of them waits.
SessionLockedByOther(p, sid) ==
  \E q \in Procs \ {p} : loc[q].inTx /\ loc[q].txSession /\ req[q].sid = sid

MessagesLockedByOther(p, ids) ==
  \E q \in Procs \ {p} : loc[q].inTx /\ loc[q].txMessages \cap ids # {}

\* --------------------------------------------------------- endChatSession
\* the UPDATE without its WHERE clause
MutSetEndedAt(sid, t) == [i \in DOMAIN sessions |-> [sessions[i] EXCEPT !.ended_at = t]]

\* SET ended_at = NOW() WHERE id = ?
SetEndedAt(sid, t) == [sessions EXCEPT ![sid].ended_at = t]

\* UPDATE chat_sessions SET ended_at = NOW() WHERE id = ?
EndUpdate(p) ==
  /\ Free(p)
  /\ \E sid \in SessionIdParams :
       /\ Begin(p, [NoReq EXCEPT !.op = "end", !.sid = sid])
       /\ ~SessionLockedByOther(p, sid)
       /\ loc' = [loc EXCEPT ![p] = NoLoc]
       /\ \E t \in Later :
            /\ ReadsNow(t)
            /\ IF sid \in DOMAIN sessions
               THEN /\ sessions' = SetEndedAt(sid, t)
                    /\ Respond(p, Answer(200))
               ELSE /\ UNCHANGED sessions
                    /\ Respond(p, Answer(404))
       /\ UNCHANGED <<messages, nextSessionId, nextMessageId, inUse>>

EndUpdateFails(p) ==
  /\ Free(p)
  /\ \E sid \in SessionIdParams :
       FirstQueryFails(p, [NoReq EXCEPT !.op = "end", !.sid = sid])

EndChatSession(p) ==
  \/ EndUpdate(p)
  \/ EndUpdateFails(p)

\* -------------------------------------------------------- getChatMessages
MessageIdsOf(sid) == {i \in DOMAIN messages : messages[i].session_id = sid}

RowOf(i) ==
  [ id |-> i, session_id |-> messages[i].session_id, sender |-> messages[i].sender,
    message |-> messages[i].message, sent_at |-> messages[i].sent_at,
    turn |-> messages[i].turn ]

\* SELECT * FROM chat_messages WHERE session_id = ? ORDER BY sent_at ASC:
\* every order of the session's rows with sent_at ascending.  Rows with the
\* same sent_at come in whatever order the server picks.
RECURSIVE Ascending(_)
Ascending(ids) ==
  IF ids = {} THEN {<<>>}
  ELSE LET first == {i \in ids : \A j \in ids : messages[i].sent_at <= messages[j].sent_at}
       IN UNION { { <<RowOf(i)>> \o rest : rest \in Ascending(ids \ {i}) } : i \in first }

OrderedBySentAt(sid) == Ascending(MessageIdsOf(sid))

ListQuery(p) ==
  /\ Free(p)
  /\ \E sid \in SessionIdParams :
       /\ Begin(p, [NoReq EXCEPT !.op = "list", !.sid = sid])
       /\ loc' = [loc EXCEPT ![p] = NoLoc]
       /\ \E rows \in OrderedBySentAt(sid) :
            Respond(p, [Answer(200) EXCEPT !.rows = rows])
       /\ UNCHANGED <<store, now, inUse>>

ListQueryFails(p) ==
  /\ Free(p)
  /\ \E sid \in SessionIdParams :
       FirstQueryFails(p, [NoReq EXCEPT !.op = "list", !.sid = sid])

GetChatMessages(p) ==
  \/ ListQuery(p)
  \/ ListQueryFails(p)

\* -------------------------------------------------------- sendChatMessage
RepliesTo(sender) == sender = "user" \/ sender = ""

SendRequest(sid, message) ==
  [NoReq EXCEPT !.op = "send", !.sid = sid, !.message = message]

\* a validation that looks at session_id only
MutSendInvalid(sid, message) == sid = 0

\* if (!session_id || !message)
SendInvalid(sid, message) == sid = 0 \/ ~Truthy(message)

\* a lookup that finds active sessions only
MutSessionFound(sid) == sid \in DOMAIN sessions /\ sessions[sid].ended_at = 0

\* SELECT * FROM chat_sessions WHERE id = ? returned a row
SessionFound(sid) == sid \in DOMAIN sessions

\* The validation of the body, then SELECT * FROM chat_sessions WHERE id = ?
SendStart(p) ==
  /\ Free(p)
  /\ \E sid \in SessionIdInputs, message \in MessageInputs :
       /\ Begin(p, SendRequest(sid, message))
       /\ loc' = [loc EXCEPT ![p] = NoLoc]
       /\ IF SendInvalid(sid, message)
          THEN Respond(p, Answer(400))
          ELSE IF ~SessionFound(sid)
          THEN Respond(p, Answer(404))
          ELSE /\ pc' = [pc EXCEPT ![p] = "s_insert_user"]
               /\ resp' = [resp EXCEPT ![p] = NoResp]
       /\ UNCHANGED <<store, now, inUse>>

SendSelectFails(p) ==
  /\ Free(p)
  /\ \E sid \in SessionIdInputs, message \in MessageInputs :
       /\ ~SendInvalid(sid, message)
       /\ FirstQueryFails(p, SendRequest(sid, message))

\* INSERT INTO chat_messages (...) VALUES (?, sender || 'user', ?, NOW(), ?),
\* and the synchronous code up to the next await.  The statement is the
\* first to read the body's sender, so the sender is drawn here.
SendInsertUserAs(p, sender) ==
  LET r == req[p]
      id == nextMessageId
      row(t) == [ session_id |-> r.sid,
                  sender |-> IF sender = "" THEN "user" ELSE sender,
                  message |-> r.message.s, sent_at |-> t, turn |-> id ]
  IN
  /\ At(p, "s_insert_user")
  /\ \E t \in Later : ReadsNow(t) /\ messages' = WithRow(messages, id, row(t))
  /\ nextMessageId' = id + 1
  /\ IF RepliesTo(sender)
     THEN IF FoodQueryThrows(r.message)
          THEN \* the TypeError lands in the inner catch
               /\ loc' = [loc EXCEPT ![p].message_id = id, ![p].replies = TRUE]
               /\ Respond(p, [Answer(200) EXCEPT !.id = id, !.error = TRUE])
          ELSE IF IsFoodRelatedQuery(r.message)
          THEN /\ loc' = [loc EXCEPT ![p].message_id = id, ![p].replies = TRUE,
                                     ![p].calledEnrich = TRUE]
               /\ pc' = [pc EXCEPT ![p] = "s_enrich"]
               /\ UNCHANGED resp
          ELSE /\ loc' = [loc EXCEPT ![p].message_id = id, ![p].replies = TRUE,
                                     ![p].calledAI = TRUE]
               /\ pc' = [pc EXCEPT ![p] = "s_ai"]
               /\ UNCHANGED resp
     ELSE /\ loc' = [loc EXCEPT ![p].message_id = id]
          /\ Respond(p, [Answer(200) EXCEPT !.id = id])
  /\ UNCHANGED <<sessions, nextSessionId, req, inUse, served, channels>>

SendInsertUser(p) == \E sender \in SenderInputs : SendInsertUserAs(p, sender)

\* await getRestaurantInfo(message): its result becomes the context, its
\* failure is caught and ignored; then chatWithOpenAI is called.
SendEnrich(p) ==
  /\ At(p, "s_enrich")
  /\ loc' = [loc EXCEPT ![p].calledAI = TRUE]
  /\ pc' = [pc EXCEPT ![p] = "s_ai"]
  /\ UNCHANGED <<store, now, req, resp, inUse, served, channels>>

\* await chatWithOpenAI(message, contextData)
SendReply(p) ==
  /\ At(p, "s_ai")
  /\ \E outcome \in Upstream :
       loc' = [loc EXCEPT ![p].aiReply = ChatWithOpenAI(outcome),
                          ![p].upstream = outcome]
  /\ pc' = [pc EXCEPT ![p] = "s_insert_bot"]
  /\ UNCHANGED <<store, now, req, resp, inUse, served, channels>>

\* INSERT INTO chat_messages (...) VALUES (?, 'bot', aiReply, NOW())
SendInsertBot(p) ==
  LET id == nextMessageId
      row(t) == [ session_id |-> req[p].sid, sender |-> "bot",
                  message |-> loc[p].aiReply, sent_at |-> t,
                  turn |-> loc[p].message_id ]
  IN
  /\ At(p, "s_insert_bot")
  /\ \E t \in Later : ReadsNow(t) /\ messages' = WithRow(messages, id, row(t))
  /\ nextMessageId' = id + 1
  /\ loc' = [loc EXCEPT ![p].bot_id = id]
  /\ Respond(p, [Answer(200) EXCEPT !.id = loc[p].message_id,
                                    !.reply = loc[p].aiReply, !.hasReply = TRUE])
  /\ UNCHANGED <<sessions, nextSessionId, req, inUse, served, channels>>

\* The bot-row insert throws and no inner catch takes it: the answer is 500.
MutSendInsertBotFails(p) ==
  /\ At(p, "s_insert_bot")
  /\ Respond(p, Answer(500))
  /\ UNCHANGED <<store, now, req, loc, inUse, served, channels>>

\* The bot-row insert throws: the inner catch still answers success.
SendInsertBotFails(p) ==
  /\ At(p, "s_insert_bot")
  /\ Respond(p, [Answer(200) EXCEPT !.id = loc[p].message_id, !.error = TRUE])
  /\ UNCHANGED <<store, now, req, loc, inUse, served, channels>>

SendChatMessage(p) ==
  \/ SendStart(p)
  \/ SendSelectFails(p)
  \/ SendInsertUser(p)
  \/ QueryFails(p, "s_insert_user")
  \/ SendEnrich(p)
  \/ SendReply(p)
  \/ SendInsertBot(p)
  \/ SendInsertBotFails(p)

\* ------------------------------------------------------ deleteChatSession
\* connectionLimit of the pool
ConnectionLimit == 10

\* await pool.getConnection(): waits while every connection is checked out
DeleteGetConnection(p) ==
  /\ Free(p)
  /\ \E sid \in SessionIdParams :
       /\ Begin(p, [NoReq EXCEPT !.op = "delete", !.sid = sid])
       /\ inUse < ConnectionLimit
       /\ inUse' = inUse + 1
       /\ loc' = [loc EXCEPT ![p] = [NoLoc EXCEPT !.hasConn = TRUE]]
       /\ pc' = [pc EXCEPT ![p] = "d_begin"]
       /\ resp' = [resp EXCEPT ![p] = NoResp]
       /\ UNCHANGED <<store, now>>

DeleteGetConnectionFails(p) ==
  /\ Free(p)
  /\ \E sid \in SessionIdParams :
       FirstQueryFails(p, [NoReq EXCEPT !.op = "delete", !.sid = sid])

\* await connection.beginTransaction()
DeleteBegin(p) ==
  /\ At(p, "d_begin")
  /\ loc' = [loc EXCEPT ![p].inTx = TRUE]
  /\ pc' = [pc EXCEPT ![p] = "d_del_msgs"]
  /\ UNCHANGED <<store, now, req, resp, inUse, served, channels>>

\* beginTransaction throws outside the inner try: the outer catch answers
\* 500 and nothing releases the connection.
DeleteBeginFails(p) ==
  /\ At(p, "d_begin")
  /\ Respond(p, Answer(500))
  /\ UNCHANGED <<store, now, req, loc, inUse, served, channels>>

\* The statement as it would run without the transaction: the rows are gone
\* as soon as it returns.
MutDeleteMessages(p) ==
  LET ids == MessageIdsOf(req[p].sid) IN
  /\ At(p, "d_del_msgs")
  /\ messages' = Without(messages, ids)
  /\ loc' = [loc EXCEPT ![p].txMessages = ids]
  /\ pc' = [pc EXCEPT ![p] = "d_del_sess"]
  /\ UNCHANGED <<sessions, nextSessionId, nextMessageId, now, req, resp, inUse, served, channels>>

\* DELETE FROM chat_messages WHERE session_id = ?  The rows the statement
\* found are removed when the transaction commits.  A row another connection
\* inserts for the session afterwards is not among them: no statement of
\* the handler sees it, whether the server lets that INSERT through at once
\* or makes it wait for the COMMIT.
DeleteMessages(p) ==
  LET ids == MessageIdsOf(req[p].sid) IN
  /\ At(p, "d_del_msgs")
  /\ ~MessagesLockedByOther(p, ids)
  /\ loc' = [loc EXCEPT ![p].txMessages = ids]
  /\ pc' = [pc EXCEPT ![p] = "d_del_sess"]
  /\ UNCHANGED <<store, now, req, resp, inUse, served, channels>>

\* DELETE FROM chat_sessions WHERE id = ?
DeleteSession(p) ==
  LET found == req[p].sid \in DOMAIN sessions IN
  /\ At(p, "d_del_sess")
  /\ ~SessionLockedByOther(p, req[p].sid)
  /\ loc' = [loc EXCEPT ![p].txSession = found,
                        ![p].affectedRows = IF found THEN 1 ELSE 0]
  /\ pc' = [pc EXCEPT ![p] = "d_commit"]
  /\ UNCHANGED <<store, now, req, resp, inUse, served, channels>>

\* A statement of the transaction throws: the inner catch takes over.
DeleteStepFails(p, at) ==
  /\ At(p, at)
  /\ pc' = [pc EXCEPT ![p] = "d_rollback"]
  /\ UNCHANGED <<store, now, req, loc, resp, inUse, served, channels>>

\* the answer without the affectedRows test
MutDeleteStatus(affectedRows) == 200

\* if (result.affectedRows === 0) 404, otherwise success
DeleteStatus(affectedRows) == IF affectedRows = 0 THEN 404 ELSE 200

\* await connection.commit(); connection.release(); the response
DeleteCommit(p) ==
  /\ At(p, "d_commit")
  /\ messages' = Without(messages, loc[p].txMessages)
  /\ sessions' = Without(sessions, IF loc[p].txSession THEN {req[p].sid} ELSE {})
  /\ inUse' = inUse - 1
  /\ loc' = [loc EXCEPT ![p].inTx = FALSE, ![p].hasConn = FALSE,
                        ![p].committed = TRUE]
  /\ Respond(p, Answer(DeleteStatus(loc[p].affectedRows)))
  /\ UNCHANGED <<nextSessionId, nextMessageId, now, req, served, channels>>

\* await connection.rollback(); connection.release(); throw error
DeleteRollback(p) ==
  /\ At(p, "d_rollback")
  /\ inUse' = inUse - 1
  /\ loc' = [loc EXCEPT ![p].inTx = FALSE, ![p].hasConn = FALSE]
  /\ Respond(p, Answer(500))
  /\ UNCHANGED <<store, now, req, served, channels>>

\* rollback itself throws (the connection is lost, the server drops the
\* transaction): release() is skipped and the outer catch answers 500.
DeleteRollbackFails(p) ==
  /\ At(p, "d_rollback")
  /\ loc' = [loc EXCEPT ![p].inTx = FALSE]
  /\ Respond(p, Answer(500))
  /\ UNCHANGED <<store, now, req, inUse, served, channels>>

DeleteChatSession(p) ==
  \/ DeleteGetConnection(p)
  \/ DeleteGetConnectionFails(p)
  \/ DeleteBegin(p)
  \/ DeleteBeginFails(p)
  \/ DeleteMessages(p)
  \/ DeleteStepFails(p, "d_del_msgs")
  \/ DeleteSession(p)
  \/ DeleteStepFails(p, "d_del_sess")
  \/ DeleteCommit(p)
  \/ DeleteStepFails(p, "d_commit")
  \/ DeleteRollback(p)
  \/ DeleteRollbackFails(p)

Step ==
  \/ \E p \in Procs : CreateChatSession(p)
  \/ \E p \in Procs : EndChatSession(p)
  \/ \E p \in Procs : GetChatMessages(p)
  \/ \E p \in Procs : SendChatMessage(p)
  \/ \E p \in Procs : DeleteChatSession(p)

Next ==
  \/ Step
  \/ \E p \in Procs : Return(p)

Spec == Init /\ [][Next]_vars

\* ---------------------------------------------------- getUserChatSessions
\* :user_id of the route: the two users of the read database, and an id no
\* user has
UserIdParams == {1, 2, 3}

SessionRow(i) ==
  [ id |-> i, user_id |-> sessions[i].user_id,
    started_at |-> sessions[i].started_at, ended_at |-> sessions[i].ended_at ]

\* the SELECT without its WHERE clause
MutSessionIdsOf(user) == DOMAIN sessions

\* WHERE user_id = ?
SessionIdsOf(user) == {i \in DOMAIN sessions : sessions[i].user_id = user}

\* ORDER BY started_at DESC: every order of the rows with started_at
\* descending.  Rows with the same started_at come in whatever order the
\* server picks.
RECURSIVE Descending(_)
Descending(ids) ==
  IF ids = {} THEN {<<>>}
  ELSE LET first == {i \in ids : \A j \in ids : sessions[i].started_at >= sessions[j].started_at}
       IN UNION { { <<SessionRow(i)>> \o rest : rest \in Descending(ids \ {i}) } : i \in first }

OrderedByStartedAt(user) == Descending(SessionIdsOf(user))

\* SELECT * FROM chat_sessions WHERE user_id = ? ORDER BY started_at DESC
SessionsQuery(p) ==
  /\ Free(p)
  /\ \E user \in UserIdParams :
       /\ Begin(p, [NoReq EXCEPT !.op = "sessions", !.user = user])
       /\ loc' = [loc EXCEPT ![p] = NoLoc]
       /\ \E rows \in OrderedByStartedAt(user) :
            Respond(p, [Answer(200) EXCEPT !.sessions = rows])
       /\ UNCHANGED <<store, now, inUse>>

SessionsQueryFails(p) ==
  /\ Free(p)
  /\ \E user \in UserIdParams :
       FirstQueryFails(p, [NoReq EXCEPT !.op = "sessions", !.user = user])

GetUserChatSessions(p) ==
  \/ SessionsQuery(p)
  \/ SessionsQueryFails(p)

\* ------------------------------------------------------------ getChatStats
\* SELECT session_id, COUNT(*) as message_count FROM chat_messages
\* GROUP BY session_id: one group for every session_id a message row has
MessageCounts ==
  [ sid \in {messages[i].session_id : i \in DOMAIN messages} |->
      Cardinality(MessageIdsOf(sid)) ]

RECURSIVE SumOf(_, _)
SumOf(f, keys) ==
  IF keys = {} THEN 0
  ELSE LET k == CHOOSE x \in keys : TRUE IN f[k] + SumOf(f, keys \ {k})

\* SELECT AVG(message_count) ..., then avgMessages[0].average || 0: AVG over
\* no group is NULL, which becomes 0
Average(counts) ==
  IF DOMAIN counts = {} THEN [num |-> 0, den |-> 1]
  ELSE [num |-> SumOf(counts, DOMAIN counts), den |-> Cardinality(DOMAIN counts)]

\* SELECT COUNT(*) as total FROM chat_sessions
StatsSessions(p) ==
  /\ Free(p)
  /\ Begin(p, [NoReq EXCEPT !.op = "stats"])
  /\ loc' = [loc EXCEPT ![p] =
               [NoLoc EXCEPT !.stats.totalSessions = Cardinality(DOMAIN sessions)]]
  /\ pc' = [pc EXCEPT ![p] = "st_messages"]
  /\ UNCHANGED <<store, now, resp, inUse>>

StatsSessionsFails(p) ==
  /\ Free(p)
  /\ FirstQueryFails(p, [NoReq EXCEPT !.op = "stats"])

\* SELECT COUNT(*) as total FROM chat_messages
StatsMessages(p) ==
  /\ At(p, "st_messages")
  /\ loc' = [loc EXCEPT ![p].stats.totalMessages = Cardinality(DOMAIN messages)]
  /\ pc' = [pc EXCEPT ![p] = "st_users"]
  /\ UNCHANGED <<store, now, req, resp, inUse, served, channels>>

\* SELECT COUNT(DISTINCT user_id) as total FROM chat_sessions
StatsUsers(p) ==
  /\ At(p, "st_users")
  /\ loc' = [loc EXCEPT ![p].stats.activeUsers =
               Cardinality({sessions[i].user_id : i \in DOMAIN sessions})]
  /\ pc' = [pc EXCEPT ![p] = "st_avg"]
  /\ UNCHANGED <<store, now, req, resp, inUse, served, channels>>

\* the average query, then res.json({ success: true, stats })
StatsAverage(p) ==
  /\ At(p, "st_avg")
  /\ LET stats == [loc[p].stats EXCEPT
                     !.averageMessagesPerSession = Average(MessageCounts)] IN
       /\ loc' = [loc EXCEPT ![p].stats = stats]
       /\ Respond(p, [Answer(200) EXCEPT !.stats = stats])
  /\ UNCHANGED <<store, now, req, inUse, served, channels>>

GetChatStats(p) ==
  \/ StatsSessions(p)
  \/ StatsSessionsFails(p)
  \/ StatsMessages(p)
  \/ QueryFails(p, "st_messages")
  \/ StatsUsers(p)
  \/ QueryFails(p, "st_users")
  \/ StatsAverage(p)
  \/ QueryFails(p, "st_avg")

\* ------------------------------------------------- the read-only handlers
\* The read handlers run against a store nothing writes to.  The store is
\* one the write handlers leave behind: up to MaxRequests sessions were
\* created by two users, at non-decreasing times; some were deleted; a
\* session holds no message or one turn, whose bot row was written in the
\* same second as the user row or later; the rows of a turn may have
\* outlived the session (C1).
Owners == {1, 2}
Gone == 0
TurnKinds == {"none", "tie", "later"}

StoreOf(n, owner, started, turn) ==
  LET created == 1..n
      userRow(i) == 2 * Cardinality({j \in 1..(i - 1) : turn[j] # "none"}) + 1
      withTurn == {i \in created : turn[i] # "none"}
      rowIds == 1..(2 * Cardinality(withTurn))
      sessionOfRow(r) == CHOOSE i \in withTurn : r \in {userRow(i), userRow(i) + 1}
      row(r) ==
        LET i == sessionOfRow(r) IN
        IF r = userRow(i)
        THEN [ session_id |-> i, sender |-> "user", message |-> <<"h","i">>,
               sent_at |-> started[i], turn |-> r ]
        ELSE [ session_id |-> i, sender |-> "bot", message |-> CompletionText,
               sent_at |-> IF turn[i] = "tie" THEN started[i] ELSE MaxClock,
               turn |-> r - 1 ]
  IN [ sessions |-> [i \in {j \in created : owner[j] # Gone} |->
                       [user_id |-> owner[i], started_at |-> started[i], ended_at |-> 0]],
       messages |-> [r \in rowIds |-> row(r)],
       nextSessionId |-> n + 1,
       nextMessageId |-> 2 * Cardinality(withTurn) + 1 ]

QuiescentStores ==
  UNION { { StoreOf(n, owner, started, turn) :
              owner \in [1..n -> Owners \cup {Gone}],
              started \in {f \in [1..n -> 1..MaxClock] :
                             \A i, j \in 1..n : i <= j => f[i] <= f[j]},
              turn \in [1..n -> TurnKinds] } : n \in 0..MaxRequests }

InitRead ==
  /\ \E db \in QuiescentStores :
       /\ sessions = db.sessions
       /\ messages = db.messages
       /\ nextSessionId = db.nextSessionId
       /\ nextMessageId = db.nextMessageId
  /\ now = MaxClock
  /\ pc = [p \in Procs |-> "idle"]
  /\ req = [p \in Procs |-> NoReq]
  /\ loc = [p \in Procs |-> NoLoc]
  /\ resp = [p \in Procs |-> NoResp]
  /\ inUse = 0
  /\ served = 0
  /\ ChannelsIdle

NextRead ==
  \/ \E p \in Procs : GetUserChatSessions(p)
  \/ \E p \in Procs : GetChatMessages(p)
  \/ \E p \in Procs : GetChatStats(p)
  \/ \E p \in Procs : Return(p)

SpecRead == InitRead /\ [][NextRead]_vars

\* ------------------------------------------------ Facebook: verifyWebhook
Subscribe == Str(<<"s","u","b","s","c","r","i","b","e">>)
\* "bo_ship_verify"
DefaultVerifyToken == Str(<<"b","o","_","s","h","i","p">>)
Forbidden == Str(<<"F","o","r","b","i","d","d","e","n">>)

\* process.env.FB_VERIFY_TOKEN: unset, empty or set
VerifyEnvs == {Undefined, Str(<<>>), Str(<<"s","3","c">>)}
\* req.query['hub.mode']
ModeInputs == {Undefined, Str(<<>>), Subscribe, Str(<<"u","n","s","u","b">>)}
\* req.query['hub.verify_token']
TokenInputs ==
  {Undefined, Str(<<>>), DefaultVerifyToken, Str(<<"s","3","c">>), Str(<<"n","o">>)}
\* req.query['hub.challenge']
ChallengeInputs == {Undefined, Str(<<"x","y","z">>), Str(<<"1","2","3">>)}

\* process.env.FB_VERIFY_TOKEN || "bo_ship_verify"
VerifyToken(env) == IF Truthy(env) THEN env ELSE DefaultVerifyToken

\* a test that does not look at the mode
MutVerified(mode, token, secret) == Truthy(token) /\ token = secret

\* mode && token && mode === 'subscribe' && token === VERIFY_TOKEN
Verified(mode, token, secret) ==
  Truthy(mode) /\ Truthy(token) /\ mode = Subscribe /\ token = secret

VerifyWebhook ==
  /\ verify.pc = "idle"
  /\ \E env \in VerifyEnvs, mode \in ModeInputs, token \in TokenInputs,
        challenge \in ChallengeInputs :
       LET ok == Verified(mode, token, VerifyToken(env)) IN
       verify' = [ pc |-> "done", env |-> env, mode |-> mode, token |-> token,
                   challenge |-> challenge,
                   status |-> IF ok THEN 200 ELSE 403,
                   body |-> IF ok THEN challenge ELSE Forbidden ]
  /\ UNCHANGED <<store, now, pc, req, loc, resp, inUse, served, fb, zp, site>>

VerifyReturn ==
  /\ verify.pc = "done"
  /\ verify' = NoVerify
  /\ UNCHANGED <<store, now, pc, req, loc, resp, inUse, served, fb, zp, site>>

NextVerify ==
  \/ VerifyWebhook
  \/ VerifyReturn

SpecVerify == Init /\ [][NextVerify]_vars

\* ------------------------------------------------ Facebook: handleWebhook
MaxEntries == 2

\* sender.id of a messaging event
Psids == {"A", "B"}

\* entry.messaging[0] of an entry: an event with a text message, an event
\* without one (no message, or a message without text), and an entry whose
\* messaging list is empty or whose event has no sender
EntryInputs ==
  { [kind |-> "text", sender |-> s, text |-> t] :
      s \in Psids, t \in {<<"h","i">>, <<"M","e","n","u">>} }
  \cup { [kind |-> "notext", sender |-> s, text |-> <<>>] : s \in Psids }
  \cup { [kind |-> "malformed", sender |-> "", text |-> <<>>] }

\* req.body: body.object, and body.entry when it is an array
FbBodies ==
  { [object |-> o, hasEntry |-> FALSE, entry |-> <<>>] : o \in {"page", "user"} }
  \cup UNION { { [object |-> o, hasEntry |-> TRUE, entry |-> e] :
                   o \in {"page", "user"}, e \in [1..n -> EntryInputs] } :
               n \in 0..MaxEntries }

\* what the callback of one entry has done: the chatWithOpenAI calls it
\* made and on what, the reply it got, the axios.post calls it made
NoWork ==
  [ state |-> "none", generated |-> 0, asked |-> <<>>, reply |-> <<>>,
    sends |-> <<>>, error |-> "none" ]

\* The callback of forEach up to its first await.  entry.messaging[0] and
\* event.sender.id throw a TypeError for a malformed entry: the async
\* callback returns a rejected promise, which forEach drops.
EntryStarted(e) ==
  CASE e.kind = "text" ->
         [NoWork EXCEPT !.state = "generating", !.generated = 1, !.asked = e.text]
    [] e.kind = "notext" -> [NoWork EXCEPT !.state = "finished"]
    [] OTHER -> [NoWork EXCEPT !.state = "rejected", !.error = "TypeError"]

\* a handler that answers 200 to everything
MutFbStatus(object, hasEntry) == 200

\* 200 for a page object, 404 for anything else; body.entry.forEach throws
\* when entry is not an array, and the catch answers 500
FbStatus(object, hasEntry) ==
  IF object = "page" THEN (IF hasEntry THEN 200 ELSE 500) ELSE 404

FbBody(status) ==
  CASE status = 200 -> "EVENT_RECEIVED"
    [] status = 404 -> "Not Found"
    [] OTHER -> "Internal Server Error"

\* The synchronous block of handleWebhook: every callback runs up to its
\* first await, then the response is sent.
FbReceive ==
  /\ fb.pc = "idle"
  /\ \E b \in FbBodies :
       LET status == FbStatus(b.object, b.hasEntry) IN
       fb' = [ pc |-> "answered", object |-> b.object, hasEntry |-> b.hasEntry,
               entry |-> b.entry,
               work |-> IF b.object = "page" /\ b.hasEntry
                        THEN [i \in 1..Len(b.entry) |-> EntryStarted(b.entry[i])]
                        ELSE [i \in 1..Len(b.entry) |-> NoWork],
               status |-> status, body |-> FbBody(status), sent |-> fb.sent + 1 ]
  /\ UNCHANGED <<store, now, pc, req, loc, resp, inUse, served, verify, zp, site>>

\* A rejected promise nobody handles is reported when the microtask queue
\* has drained, before any other callback runs.
FbRunning ==
  /\ fb.pc = "answered"
  /\ \A i \in 1..Len(fb.work) : fb.work[i].state # "rejected"

\* await chatWithOpenAI(text) resumes; sendMessageToFB posts the reply
FbGenerated(i) ==
  /\ FbRunning
  /\ fb.work[i].state = "generating"
  /\ \E outcome \in Upstream :
       LET reply == ChatWithOpenAI(outcome) IN
       fb' = [fb EXCEPT !.work[i].state = "sending",
                        !.work[i].reply = reply,
                        !.work[i].sends =
                           Append(@, [to |-> fb.entry[i].sender, text |-> reply])]
  /\ UNCHANGED <<store, now, pc, req, loc, resp, inUse, served, verify, zp, site>>

\* axios.post resolves
FbSent(i) ==
  /\ FbRunning
  /\ fb.work[i].state = "sending"
  /\ fb' = [fb EXCEPT !.work[i].state = "finished"]
  /\ UNCHANGED <<store, now, pc, req, loc, resp, inUse, served, verify, zp, site>>

\* axios.post rejects: sendMessageToFB and the callback reject
FbSendFails(i) ==
  /\ FbRunning
  /\ fb.work[i].state = "sending"
  /\ fb' = [fb EXCEPT !.work[i].state = "rejected", !.work[i].error = "send"]
  /\ UNCHANGED <<store, now, pc, req, loc, resp, inUse, served, verify, zp, site>>

\* The unhandled rejection is reported with a warning (Node before 15, or
\* --unhandled-rejections=warn) ...
FbUnhandledWarns(i) ==
  /\ fb.pc = "answered"
  /\ fb.work[i].state = "rejected"
  /\ fb' = [fb EXCEPT !.work[i].state = "warned"]
  /\ UNCHANGED <<store, now, pc, req, loc, resp, inUse, served, verify, zp, site>>

\* ... or raised as an uncaught exception, which ends the process (the
\* default since Node 15).
FbUnhandledExits(i) ==
  /\ fb.pc = "answered"
  /\ fb.work[i].state = "rejected"
  /\ fb' = [fb EXCEPT !.pc = "exited"]
  /\ UNCHANGED <<store, now, pc, req, loc, resp, inUse, served, verify, zp, site>>

\* every callback has settled
FbReturn ==
  /\ fb.pc = "answered"
  /\ \A i \in 1..Len(fb.work) : fb.work[i].state \in {"none", "finished", "warned"}
  /\ fb' = NoFb
  /\ UNCHANGED <<store, now, pc, req, loc, resp, inUse, served, verify, zp, site>>

NextFb ==
  \/ FbReceive
  \/ \E i \in 1..Len(fb.work) : FbGenerated(i)
  \/ \E i \in 1..Len(fb.work) : FbSent(i)
  \/ \E i \in 1..Len(fb.work) : FbSendFails(i)
  \/ \E i \in 1..Len(fb.work) : FbUnhandledWarns(i)
  \/ \E i \in 1..Len(fb.work) : FbUnhandledExits(i)
  \/ FbReturn

SpecFb == Init /\ [][NextFb]_vars

\* ------------------------------------------ Zalo Personal: gatewayWebhook
\* req.body.from
FromInputs ==
  { Undefined, Str(<<>>), Str(<<"U","1">>), Str(<<"U","2">>), Num(<<"0">>), Num(<<"7">>) }

\* a validation that looks at the sender only
MutZpInvalid(from, message) == ~Truthy(from)

\* if (!userId || !message)
ZpInvalid(from, message) == ~Truthy(from) \/ ~Truthy(message)

\* The validation, then the call of chatWithOpenAI(message)
ZpReceive ==
  /\ zp.pc = "idle"
  /\ \E from \in FromInputs, message \in MessageInputs :
       IF ZpInvalid(from, message)
       THEN zp' = [NoZp EXCEPT !.pc = "done", !.from = from, !.message = message,
                               !.status = 400, !.sent = @ + 1]
       ELSE zp' = [NoZp EXCEPT !.pc = "generating", !.from = from,
                               !.message = message, !.calledAI = TRUE]
  /\ UNCHANGED <<store, now, pc, req, loc, resp, inUse, served, verify, fb, site>>

\* await chatWithOpenAI(message) resumes; axios.post(.../send-text, {to, message: reply})
ZpGenerated ==
  /\ zp.pc = "generating"
  /\ \E outcome \in Upstream :
       LET reply == ChatWithOpenAI(outcome) IN
       zp' = [zp EXCEPT !.pc = "sending", !.reply = reply,
                        !.posted = Append(@, [to |-> zp.from, message |-> reply])]
  /\ UNCHANGED <<store, now, pc, req, loc, resp, inUse, served, verify, fb, site>>

\* axios.post resolves: res.json({ ok: 1 })
ZpSent ==
  /\ zp.pc = "sending"
  /\ zp' = [zp EXCEPT !.pc = "done", !.status = 200, !.ok = TRUE, !.sent = @ + 1]
  /\ UNCHANGED <<store, now, pc, req, loc, resp, inUse, served, verify, fb, site>>

\* axios.post rejects: catch (err) res.status(500).end()
ZpSendFails ==
  /\ zp.pc = "sending"
  /\ zp' = [zp EXCEPT !.pc = "done", !.error = "send", !.status = 500, !.sent = @ + 1]
  /\ UNCHANGED <<store, now, pc, req, loc, resp, inUse, served, verify, fb, site>>

ZpReturn ==
  /\ zp.pc = "done"
  /\ zp' = NoZp
  /\ UNCHANGED <<store, now, pc, req, loc, resp, inUse, served, verify, fb, site>>

NextZp ==
  \/ ZpReceive
  \/ ZpGenerated
  \/ ZpSent
  \/ ZpSendFails
  \/ ZpReturn

SpecZp == Init /\ [][NextZp]_vars

\* ------------------------------------------------- Zalo OA: handleWebhook
\* req.body.sender: absent, or an object with an id
ZaloSenders ==
  { [present |-> FALSE, id |-> Undefined],
    [present |-> TRUE, id |-> Undefined],
    [present |-> TRUE, id |-> Str(<<"Z","1">>)],
    [present |-> TRUE, id |-> Str(<<"Z","2">>)] }

\* req.body.message: absent, or an object with a text
ZaloMessages ==
  {[present |-> FALSE, text |-> Undefined]}
    \cup {[present |-> TRUE, text |-> t] : t \in MessageInputs}

\* body.message && body.message.text
ExtractZaloMessage(sender, message) ==
  [ sender |-> sender.id,
    message |-> IF message.present THEN message.text ELSE Undefined ]

\* extractZaloMessage throws on body.sender.id when there is no sender
\* (caught: 500 {code: 1}); without a message text the handler answers
\* 200 {code: 0} at once; otherwise it calls chatWithOpenAI(message).
ZaloReceive ==
  /\ zalo.pc = "idle"
  /\ \E sender \in ZaloSenders, message \in ZaloMessages :
       IF ~sender.present
       THEN zalo' = [NoZalo EXCEPT !.pc = "done", !.error = "type",
                                   !.status = 500, !.code = 1, !.sent = @ + 1]
       ELSE LET got == ExtractZaloMessage(sender, message) IN
            IF ~Truthy(got.message)
            THEN zalo' = [NoZalo EXCEPT !.pc = "done", !.hasSender = TRUE,
                                        !.sender = got.sender, !.message = got.message,
                                        !.status = 200, !.code = 0, !.sent = @ + 1]
            ELSE zalo' = [NoZalo EXCEPT !.pc = "generating", !.hasSender = TRUE,
                                        !.sender = got.sender, !.message = got.message,
                                        !.calledAI = TRUE]
  /\ UNCHANGED <<database, verify, fb, zp, chat, logs, chats, menu, admin, ai, services>>

\* await chatWithOpenAI(message) resumes; sendZaloMessage(sender, reply) posts
ZaloGenerated ==
  /\ zalo.pc = "generating"
  /\ \E outcome \in Upstream :
       LET reply == ChatWithOpenAI(outcome) IN
       zalo' = [zalo EXCEPT !.pc = "sending", !.reply = reply,
                            !.posted = Append(@, [user_id |-> zalo.sender, text |-> reply])]
  /\ UNCHANGED <<database, verify, fb, zp, chat, logs, chats, menu, admin, ai, services>>

\* axios.post resolves: res.status(200).json({ code: 0 })
ZaloSent ==
  /\ zalo.pc = "sending"
  /\ zalo' = [zalo EXCEPT !.pc = "done", !.status = 200, !.code = 0, !.sent = @ + 1]
  /\ UNCHANGED <<database, verify, fb, zp, chat, logs, chats, menu, admin, ai, services>>

\* axios.post rejects inside the try: catch (e) res.status(500).json({ code: 1 })
ZaloSendFails ==
  /\ zalo.pc = "sending"
  /\ zalo' = [zalo EXCEPT !.pc = "done", !.error = "send", !.status = 500,
                          !.code = 1, !.sent = @ + 1]
  /\ UNCHANGED <<database, verify, fb, zp, chat, logs, chats, menu, admin, ai, services>>

ZaloReturn ==
  /\ zalo.pc = "done"
  /\ zalo' = NoZalo
  /\ UNCHANGED <<database, verify, fb, zp, chat, logs, chats, menu, admin, ai, services>>

NextZalo ==
  \/ ZaloReceive
  \/ ZaloGenerated
  \/ ZaloSent
  \/ ZaloSendFails
  \/ ZaloReturn

SpecZalo == Init /\ [][NextZalo]_vars

\* ------------------------------------------------ openai.js: chatWithOpenAI
\* String.prototype.trim on a text of letters and blanks
RECURSIVE TrimStart(_)
TrimStart(chars) ==
  IF chars # <<>> /\ Head(chars) = " " THEN TrimStart(Tail(chars)) ELSE chars

RECURSIVE TrimEnd(_)
TrimEnd(chars) ==
  IF chars # <<>> /\ chars[Len(chars)] = " "
  THEN TrimEnd(SubSeq(chars, 1, Len(chars) - 1))
  ELSE chars

Trim(chars) == TrimEnd(TrimStart(chars))

\* the second argument; undefined takes the default ''
ContextInputs ==
  { Undefined, Str(<<>>), Str(<<" ", " ">>), Str(<<" ", "m", " ">>), Str(<<"m">>),
    Num(<<"5">>), Num(<<"0">>) }

\* contextData = ''
ContextOf(contextData) == IF contextData.t = "undefined" THEN Str(<<>>) ELSE contextData

\* contextData.trim() of a truthy value that is no string is a TypeError
ContextThrows(contextData) ==
  Truthy(ContextOf(contextData)) /\ ContextOf(contextData).t # "string"

\* if (contextData && contextData.trim() !== '')
HasContext(contextData) ==
  /\ Truthy(ContextOf(contextData))
  /\ Trim(ContextOf(contextData).s) # <<>>

\* the messages array given to openai.chat.completions.create
MessagesOf(message, contextData) ==
  <<[role |-> "system", content |-> Str(<<"p","r","o","m","p","t">>)]>>
    \o (IF HasContext(contextData)
        THEN <<[role |-> "system", content |-> ContextOf(contextData)]>>
        ELSE <<>>)
    \o <<[role |-> "user", content |-> message]>>

\* a generator whose catch rethrows
MutSettled(outcome) ==
  IF outcome = "fails"
  THEN [threw |-> TRUE, value |-> <<>>]
  ELSE [threw |-> FALSE, value |-> ChatWithOpenAI(outcome)]

\* what the call returns once the upstream call has settled
Settled(outcome) == [threw |-> FALSE, value |-> ChatWithOpenAI(outcome)]

\* The synchronous part: the messages are built and the upstream call is
\* made; a TypeError of contextData.trim is caught and answered with the
\* apology of the catch branch.
AiCall ==
  /\ ai.pc = "idle"
  /\ \E message \in MessageInputs, contextData \in ContextInputs :
       IF ContextThrows(contextData)
       THEN ai' = [NoAi EXCEPT !.pc = "returned", !.message = message,
                               !.contextData = contextData,
                               !.value = ChatWithOpenAI("fails")]
       ELSE ai' = [NoAi EXCEPT !.pc = "awaiting", !.message = message,
                               !.contextData = contextData,
                               !.request = MessagesOf(message, contextData),
                               !.calledUpstream = TRUE]
  /\ UNCHANGED <<database, verify, fb, zp, zalo, chat, logs, chats, menu, admin, services>>

\* await openai.chat.completions.create(...) settles
AiSettled ==
  /\ ai.pc = "awaiting"
  /\ \E outcome \in Upstream :
       ai' = [ai EXCEPT !.pc = "returned", !.threw = Settled(outcome).threw,
                        !.value = Settled(outcome).value, !.outcome = outcome]
  /\ UNCHANGED <<database, verify, fb, zp, zalo, chat, logs, chats, menu, admin, services>>

AiReturn ==
  /\ ai.pc = "returned"
  /\ ai' = NoAi
  /\ UNCHANGED <<database, verify, fb, zp, zalo, chat, logs, chats, menu, admin, services>>

NextAi ==
  \/ AiCall
  \/ AiSettled
  \/ AiReturn

SpecAi == Init /\ [][NextAi]_vars

\* ------------------------------------------------ chatController: userChat
\* if (logs.length > 1000) logs = logs.slice(logs.length - 1000)
LogLimit == 1000

\* entry k of the log written before the server started: turn after turn,
\* the user's entry and then the bot's
HistoryEntry(k) ==
  [ from |-> IF k % 2 = 1 THEN "user" ELSE "bot",
    content |-> IF k % 2 = 1 THEN Str(<<"h","i">>) ELSE Str(CompletionText),
    turn |-> (k + 1) \div 2 ]

\* logs.length
LogLength(log) == log.old + Len(log.recent)

\* logs[i - 1]
EntryAt(log, i) ==
  IF i <= log.old
  THEN HistoryEntry(2 * logs.hist - log.old + i)
  ELSE log.recent[i - log.old]

\* logs.push(entry)
Push(log, entry) == [log EXCEPT !.recent = Append(@, entry)]

\* logs.slice(k) for 0 <= k <= logs.length
SliceFrom(log, k) ==
  IF k <= log.old
  THEN [log EXCEPT !.old = @ - k]
  ELSE [old |-> 0, recent |-> SubSeq(log.recent, k - log.old + 1, Len(log.recent))]

\* a log that keeps one entry less
MutKept(log) ==
  IF LogLength(log) > LogLimit - 1
  THEN SliceFrom(log, LogLength(log) - (LogLimit - 1))
  ELSE log

\* if (logs.length > 1000) logs = logs.slice(logs.length - 1000)
Kept(log) ==
  IF LogLength(log) > LogLimit
  THEN SliceFrom(log, LogLength(log) - LogLimit)
  ELSE log

\* the size of JSON.stringify(entry): the frame of the three fields and
\* the text of content (a content of undefined is left out)
EntryBytes(entry) ==
  IF entry.content.t = "undefined" THEN 50 ELSE 60 + Len(entry.content.s)

RECURSIVE BytesOf(_)
BytesOf(entries) ==
  IF entries = <<>> THEN 0 ELSE EntryBytes(Head(entries)) + BytesOf(Tail(entries))

\* the size of JSON.stringify(logs, null, 2)
LogBytes(log) == 2 + log.old * EntryBytes(HistoryEntry(1)) + BytesOf(log.recent)

\* what a reader of logs.json gets: the parsed array, or nothing when the
\* file is missing or does not parse
Readable == logs.exists /\ logs.valid
LogRead == IF Readable THEN logs.data ELSE EmptyLog

\* the optional requires of the module: all loaded, ../ai/tts threw (the
\* requires after it were skipped), ../ai/vision threw
ServiceSets ==
  { AllServices,
    [ analyzeImage |-> TRUE, createVoiceMp3 |-> FALSE, readMenuFile |-> FALSE,
      searchTrainingData |-> FALSE ],
    [ analyzeImage |-> FALSE, createVoiceMp3 |-> FALSE, readMenuFile |-> FALSE,
      searchTrainingData |-> FALSE ] }

\* message.toLowerCase().includes('menu')
AsksMenu(message) == Includes(ToLowerCase(message.s), <<"m","e","n","u">>)

\* The request arrives.  With an image and analyzeImage the image branch
\* runs; a truthy message that is no string throws at toLowerCase when
\* readMenuFile is loaded (outer catch: 500); a message naming the menu is
\* answered from readMenuFile, which never rejects; otherwise
\* searchTrainingData (which never rejects) and chatWithOpenAI are called.
ChatReceive(p, message, image) ==
  /\ chat[p].pc = "idle"
  /\ chats < MaxRequests
  /\ chats' = chats + 1
  /\ LET c == [NoChat EXCEPT !.turn = logs.hist + chats + 1, !.message = message,
                             !.image = image] IN
     chat' = [chat EXCEPT ![p] =
       IF image /\ services.analyzeImage
       THEN [c EXCEPT !.pc = "analyzing"]
       ELSE IF Truthy(message) /\ services.readMenuFile /\ message.t # "string"
       THEN [c EXCEPT !.pc = "done", !.status = 500, !.path = "error", !.sent = @ + 1]
       ELSE IF Truthy(message) /\ services.readMenuFile /\ AsksMenu(message)
       THEN [c EXCEPT !.pc = "done", !.status = 200, !.path = "menu",
                      !.voice_url = "absent", !.sent = @ + 1]
       ELSE [c EXCEPT !.pc = "generating"]]
  /\ UNCHANGED <<database, verify, fb, zp, zalo, logs, menu, admin, ai, services>>

\* analyzeImage and createVoiceMp3 have settled: res.json({reply, voice_url});
\* when analyzeImage threw, res.json({reply}) with the apology
ChatAnalyzed(p, analysed, tts) ==
  /\ chat[p].pc = "analyzing"
  /\ chat' = [chat EXCEPT ![p].pc = "done", ![p].status = 200, ![p].path = "image",
                          ![p].tts = IF analysed /\ services.createVoiceMp3
                                     THEN tts ELSE "none",
                          ![p].voice_url =
                             IF ~analysed THEN "absent"
                             ELSE IF services.createVoiceMp3 /\ tts = "ok" THEN "url"
                             ELSE "null",
                          ![p].sent = @ + 1]
  /\ UNCHANGED <<database, verify, fb, zp, zalo, logs, chats, menu, admin, ai, services>>

\* await chatWithOpenAI(message, contextData) and, when loaded, await
\* createVoiceMp3(aiReply, 'reply') have settled; a rejected createVoiceMp3
\* is swallowed by catch {}.  fs.readFile(logPath) is called.
ChatReplied(p, outcome, tts) ==
  /\ chat[p].pc = "generating"
  /\ chat' = [chat EXCEPT ![p].pc = "reading",
                          ![p].aiReply = ChatWithOpenAI(outcome),
                          ![p].tts = IF services.createVoiceMp3 THEN tts ELSE "none",
                          ![p].voice_url =
                             IF services.createVoiceMp3 /\ tts = "ok" THEN "url"
                             ELSE "null"]
  /\ UNCHANGED <<database, verify, fb, zp, zalo, logs, chats, menu, admin, ai, services>>

\* await fs.readFile settles: logs = JSON.parse(raw), or [] when the read
\* or the parse threw; the two entries are pushed, the array is cut to
\* the limit and fs.writeFile is called.
ChatRead(p, ok) ==
  /\ chat[p].pc = "reading"
  /\ LET read == IF ok THEN LogRead ELSE EmptyLog
         user == [from |-> "user", content |-> chat[p].message, turn |-> chat[p].turn]
         bot == [from |-> "bot", content |-> Str(chat[p].aiReply), turn |-> chat[p].turn]
     IN chat' = [chat EXCEPT ![p].pc = "opening",
                             ![p].readFailed = LogLength(LogRead) > 0 /\ ~ok,
                             ![p].logs = Kept(Push(Push(read, user), bot))]
  /\ UNCHANGED <<database, verify, fb, zp, zalo, logs, chats, menu, admin, ai, services>>

\* fs.writeFile opens the file with flag 'w': it exists and is empty
ChatOpen(p) ==
  /\ chat[p].pc = "opening"
  /\ chat' = [chat EXCEPT ![p].pc = "writing"]
  /\ logs' = [logs EXCEPT !.exists = TRUE, !.valid = FALSE, !.bytes = 0,
                          !.data = EmptyLog]
  /\ UNCHANGED <<database, verify, fb, zp, zalo, chats, menu, admin, ai, services>>

\* the open rejects: catch (err) logs 'Logging error'; res.json({reply, voice_url})
ChatOpenFails(p) ==
  /\ chat[p].pc = "opening"
  /\ chat' = [chat EXCEPT ![p].pc = "done", ![p].status = 200, ![p].path = "chat",
                          ![p].reply = chat[p].aiReply, ![p].sent = @ + 1]
  /\ UNCHANGED <<database, verify, fb, zp, zalo, logs, chats, menu, admin, ai, services>>

\* The text is written from offset 0 of the handle's own position and the
\* handle is closed: bytes of a longer text that another handle wrote since
\* this one opened stay behind the text.  res.json({reply, voice_url}).
ChatWrite(p) ==
  /\ chat[p].pc = "writing"
  /\ LET fits == logs.bytes <= LogBytes(chat[p].logs) IN
     logs' = [logs EXCEPT !.valid = fits,
                          !.bytes = IF fits THEN LogBytes(chat[p].logs) ELSE @,
                          !.data = IF fits THEN chat[p].logs ELSE EmptyLog,
                          !.writes = Append(@, chat[p].turn),
                          !.lost = @ \/ chat[p].readFailed \/ ~fits]
  /\ chat' = [chat EXCEPT ![p].pc = "done", ![p].status = 200, ![p].path = "chat",
                          ![p].reply = chat[p].aiReply, ![p].logged = TRUE,
                          ![p].sent = @ + 1]
  /\ UNCHANGED <<database, verify, fb, zp, zalo, chats, menu, admin, ai, services>>

\* a handler whose failed log write reaches the outer catch
MutChatWriteFails(p) ==
  /\ chat[p].pc = "writing"
  /\ logs' = [logs EXCEPT !.lost = TRUE]
  /\ chat' = [chat EXCEPT ![p].pc = "done", ![p].status = 500, ![p].path = "error",
                          ![p].sent = @ + 1]
  /\ UNCHANGED <<database, verify, fb, zp, zalo, chats, menu, admin, ai, services>>

\* the write rejects after the open: the same catch and response
ChatWriteFails(p) ==
  /\ chat[p].pc = "writing"
  /\ logs' = [logs EXCEPT !.lost = TRUE]
  /\ chat' = [chat EXCEPT ![p].pc = "done", ![p].status = 200, ![p].path = "chat",
                          ![p].reply = chat[p].aiReply, ![p].sent = @ + 1]
  /\ UNCHANGED <<database, verify, fb, zp, zalo, chats, menu, admin, ai, services>>

ChatReturn(p) ==
  /\ chat[p].pc = "done"
  /\ chat' = [chat EXCEPT ![p] = NoChat]
  /\ UNCHANGED <<database, verify, fb, zp, zalo, logs, chats, menu, admin, ai, services>>

\* GET /api/admin/messages: res.json({messages: data}), [] when the file
\* cannot be read or parsed
GetMessages ==
  /\ admin.pc = "idle"
  /\ admin' = [NoAdmin EXCEPT !.pc = "done", !.op = "messages", !.status = 200,
                              !.body = LogRead, !.sent = @ + 1]
  /\ UNCHANGED <<database, verify, fb, zp, zalo, chat, logs, chats, menu, ai, services>>

AdminReturn ==
  /\ admin.pc = "done"
  /\ admin' = NoAdmin
  /\ UNCHANGED <<database, verify, fb, zp, zalo, chat, logs, chats, menu, ai, services>>

TtsOutcomes == {"ok", "fails"}

\* the steps of a userChat request after its arrival
ChatStep(p) ==
  \/ \E analysed \in BOOLEAN, tts \in TtsOutcomes : ChatAnalyzed(p, analysed, tts)
  \/ \E outcome \in Upstream, tts \in TtsOutcomes : ChatReplied(p, outcome, tts)
  \/ \E ok \in BOOLEAN : ChatRead(p, ok)
  \/ ChatOpen(p)
  \/ ChatOpenFails(p)
  \/ ChatWrite(p)
  \/ ChatWriteFails(p)
  \/ ChatReturn(p)

\* logs.json before the server starts: missing, or the log of Turns turns
LogOf(turns) ==
  [ exists |-> TRUE, valid |-> TRUE,
    data |-> [old |-> IF 2 * turns > LogLimit THEN LogLimit ELSE 2 * turns,
              recent |-> <<>>],
    bytes |-> 2 + (IF 2 * turns > LogLimit THEN LogLimit ELSE 2 * turns)
                    * EntryBytes(HistoryEntry(1)),
    hist |-> turns, writes |-> <<>>, lost |-> FALSE ]

InitialLogs ==
  {NoLogs} \cup {LogOf(turns) : turns \in {LogLimit \div 2 - 1, LogLimit \div 2,
                                           LogLimit \div 2 + 5}}

InitChat ==
  /\ \E db \in InitialStores :
       /\ sessions = db.sessions
       /\ messages = db.messages
       /\ nextSessionId = Len(db.sessions) + 1
       /\ nextMessageId = Len(db.messages) + 1
       /\ db.sessions = <<>>
  /\ now = 1
  /\ pc = [p \in Procs |-> "idle"]
  /\ req = [p \in Procs |-> NoReq]
  /\ loc = [p \in Procs |-> NoLoc]
  /\ resp = [p \in Procs |-> NoResp]
  /\ inUse = 0
  /\ served = 0
  /\ verify = NoVerify /\ fb = NoFb /\ zp = NoZp
  /\ zalo = NoZalo
  /\ chat = [p \in Procs |-> NoChat]
  /\ logs \in InitialLogs
  /\ chats = 0
  /\ menu = NoFile
  /\ admin = NoAdmin
  /\ ai = NoAi
  /\ services \in ServiceSets

\* no request is being served
Quiet == admin.pc = "idle" /\ \A q \in Procs : chat[q].pc = "idle"

\* requests served one after the other
NextChat ==
  \/ \E message \in MessageInputs, image \in BOOLEAN :
       Quiet /\ ChatReceive(1, message, image)
  \/ ChatStep(1)
  \/ Quiet /\ GetMessages
  \/ AdminReturn

SpecChat == InitChat /\ [][NextChat]_vars

\* messages that are answered by chatWithOpenAI and logged
LoggedMessages == {Str(<<"h","i">>), Str(<<>>)}

\* every optional module loaded; a short log or a full one
InitRace ==
  /\ InitChat
  /\ services = AllServices
  /\ logs \in {LogOf(1), LogOf(LogLimit \div 2)}

\* requests that overlap: two handler frames at a time
NextRace ==
  \/ \E p \in Procs, message \in LoggedMessages, image \in BOOLEAN :
       ChatReceive(p, message, image)
  \/ \E p \in Procs : ChatStep(p)

SpecRace == InitRace /\ [][NextRace]_vars

\* ------------------------------------------- menuController: getMenu, saveMenu
\* A JSON text is a sequence of tokens; " " stands for white space.
NumberTokens == {"1", "1.0", "2"}
KeyTokens == {"a", "b"}

\* JSON values: null, a number, an object with its members in order
JsonNull == [kind |-> "null", n |-> 0, members |-> <<>>]
JsonNumber(n) == [kind |-> "number", n |-> n, members |-> <<>>]
JsonObject(members) == [kind |-> "object", n |-> 0, members |-> members]

\* the number a number token denotes
NumberOf(token) == IF token = "2" THEN 2 ELSE 1

\* the token JSON.stringify writes for a number
NumberText(n) == IF n = 2 THEN "2" ELSE "1"

\* white space between tokens is insignificant
RECURSIVE Significant(_)
Significant(text) ==
  IF text = <<>> THEN <<>>
  ELSE IF Head(text) = " " THEN Significant(Tail(text))
  ELSE <<Head(text)>> \o Significant(Tail(text))

\* the value of a text without white space, or a SyntaxError
RECURSIVE ParseTokens(_)
ParseTokens(ts) ==
  IF ts = <<"null">> THEN [ok |-> TRUE, value |-> JsonNull]
  ELSE IF Len(ts) = 1 /\ ts[1] \in NumberTokens
  THEN [ok |-> TRUE, value |-> JsonNumber(NumberOf(ts[1]))]
  ELSE IF ts = <<"{", "}">> THEN [ok |-> TRUE, value |-> JsonObject(<<>>)]
  ELSE IF Len(ts) >= 5 /\ ts[1] = "{" /\ ts[Len(ts)] = "}" /\ ts[2] \in KeyTokens
          /\ ts[3] = ":"
  THEN LET inner == ParseTokens(SubSeq(ts, 4, Len(ts) - 1)) IN
       IF inner.ok
       THEN [ok |-> TRUE,
             value |-> JsonObject(<<[key |-> ts[2], value |-> inner.value]>>)]
       ELSE [ok |-> FALSE, value |-> JsonNull]
  ELSE [ok |-> FALSE, value |-> JsonNull]

\* JSON.parse(text)
JsonParse(text) == ParseTokens(Significant(text))

\* JSON.stringify(value, null, 2): members on lines of their own
RECURSIVE JsonStringify(_)
JsonStringify(value) ==
  IF value.kind = "null" THEN <<"null">>
  ELSE IF value.kind = "number" THEN <<NumberText(value.n)>>
  ELSE IF value.members = <<>> THEN <<"{", "}">>
  ELSE <<"{", " ", value.members[1].key, ":", " ">>
         \o JsonStringify(value.members[1].value) \o <<" ", "}">>

\* req.body.menu: absent (JSON.parse reads the text "undefined"), or a string
MenuInputs ==
  { <<"undefined">>, <<>>, <<"{">>, <<"{", "a", "}">>, <<"{", "a", ":", "}">>,
    <<"null">>, <<"1">>, <<"1.0">>, <<" ", "2", " ">>, <<"{", "}">>,
    <<"{", "a", ":", "1", "}">>, <<"{", " ", "b", ":", "{", "}", "}">>,
    <<"{", "a", ":", "{", "b", ":", "null", "}", "}">> }

\* a saveMenu for which an empty object means "no change"
MutSavedText(parsed, text) ==
  IF parsed = JsonObject(<<>>) /\ menu.exists THEN menu.data ELSE JsonStringify(parsed)

\* JSON.stringify(menuObj, null, 2)
SavedText(parsed, text) == JsonStringify(parsed)

\* GET /api/menu: res.json(JSON.parse(data)); res.json({}) when the file
\* cannot be read or its text does not parse
GetMenu(readOk) ==
  /\ admin.pc = "idle"
  /\ LET got == JsonParse(menu.data) IN
     admin' = [NoAdmin EXCEPT !.pc = "done", !.op = "get", !.status = 200,
                              !.read = IF menu.exists /\ readOk THEN "ok" ELSE "failed",
                              !.body = IF menu.exists /\ readOk /\ got.ok
                                       THEN got.value ELSE JsonObject(<<>>),
                              !.sent = @ + 1]
  /\ UNCHANGED <<database, verify, fb, zp, zalo, chat, logs, chats, menu, ai, services>>

\* POST /api/menu: JSON.parse(req.body.menu) throws: 400; otherwise
\* fs.writeFile is called with the stringified value
SaveMenu(text) ==
  /\ admin.pc = "idle"
  /\ LET got == JsonParse(text) IN
     admin' = IF got.ok
              THEN [NoAdmin EXCEPT !.pc = "saving", !.op = "save", !.menu = text,
                                   !.parsed = got.value]
              ELSE [NoAdmin EXCEPT !.pc = "done", !.op = "save", !.menu = text,
                                   !.status = 400, !.body = [error |-> "invalid"],
                                   !.sent = @ + 1]
  /\ UNCHANGED <<database, verify, fb, zp, zalo, chat, logs, chats, menu, ai, services>>

\* await fs.writeFile resolves: res.json({ ok: 1 })
MenuSaved ==
  /\ admin.pc = "saving"
  /\ menu' = [exists |-> TRUE, data |-> SavedText(admin.parsed, admin.menu),
              posted |-> admin.menu]
  /\ admin' = [admin EXCEPT !.pc = "done", !.status = 200, !.body = [ok |-> 1],
                            !.sent = @ + 1]
  /\ UNCHANGED <<database, verify, fb, zp, zalo, chat, logs, chats, ai, services>>

\* await fs.writeFile rejects, at the open (the file is as it was) or
\* after it (the file is empty): res.status(500).json({ error })
MenuSaveFails(opened) ==
  /\ admin.pc = "saving"
  /\ menu' = IF opened THEN [exists |-> TRUE, data |-> <<>>, posted |-> <<>>] ELSE menu
  /\ admin' = [admin EXCEPT !.pc = "done", !.status = 500, !.body = [error |-> "save"],
                            !.sent = @ + 1]
  /\ UNCHANGED <<database, verify, fb, zp, zalo, chat, logs, chats, ai, services>>

\* menu.json before the server starts
InitialMenus ==
  { NoFile,
    [exists |-> TRUE, data |-> <<"{", " ", "a", ":", " ", "2", " ", "}">>, posted |-> <<>>],
    [exists |-> TRUE, data |-> <<"{", "a">>, posted |-> <<>>] }

InitMenu ==
  /\ \E db \in InitialStores :
       /\ sessions = db.sessions
       /\ messages = db.messages
       /\ nextSessionId = Len(db.sessions) + 1
       /\ nextMessageId = Len(db.messages) + 1
       /\ db.sessions = <<>>
  /\ now = 1
  /\ pc = [p \in Procs |-> "idle"]
  /\ req = [p \in Procs |-> NoReq]
  /\ loc = [p \in Procs |-> NoLoc]
  /\ resp = [p \in Procs |-> NoResp]
  /\ inUse = 0
  /\ served = 0
  /\ verify = NoVerify /\ fb = NoFb /\ zp = NoZp
  /\ zalo = NoZalo
  /\ chat = [p \in Procs |-> NoChat]
  /\ logs = NoLogs
  /\ chats = 0
  /\ menu \in InitialMenus
  /\ admin = NoAdmin
  /\ ai = NoAi
  /\ services = AllServices

NextMenu ==
  \/ \E readOk \in BOOLEAN : GetMenu(readOk)
  \/ \E text \in MenuInputs : SaveMenu(text)
  \/ MenuSaved
  \/ \E opened \in BOOLEAN : MenuSaveFails(opened)
  \/ AdminReturn

SpecMenu == InitMenu /\ [][NextMenu]_vars

\* ------------------------------- all handlers that answer an HTTP request
\* The session handlers and the three webhooks share no state: requests of
\* one of them at a time, the webhooks before the first session request.
NoSessionRequest == served = 0 /\ \A p \in Procs : pc[p] = "idle"

NextOnce ==
  \/ fb = NoFb /\ zalo = NoZalo /\ zp = NoZp /\ Next
  \/ NoSessionRequest /\ zalo = NoZalo /\ zp = NoZp /\ NextFb
  \/ NoSessionRequest /\ fb = NoFb /\ zp = NoZp /\ NextZalo
  \/ NoSessionRequest /\ fb = NoFb /\ zalo = NoZalo /\ NextZp

SpecOnce == Init /\ [][NextOnce]_vars

\* ================================================================ properties
Done(p, op) == pc[p] = "done" /\ req[p].op = op

\* rows of a turn: the user row has the turn's id, the bot row names it
BotRowsOf(turn) ==
  {i \in DOMAIN messages : messages[i].sender = "bot" /\ messages[i].turn = turn}

\* C1: in every reachable state every chat_messages row has a session_id
\* that names an existing chat_sessions row, also when a sendChatMessage
\* overlaps a deleteChatSession of the same session.
C1_EveryMessageHasItsSession ==
  \A i \in DOMAIN messages : messages[i].session_id \in DOMAIN sessions

\* C2: deleteChatSession is all-or-nothing.  While its transaction is open,
\* and when the handler has answered after a failure, every row the
\* transaction deleted is in its table as before the call, the answer of a
\* failed call is 500, and an answer other than 500 is given only after the
\* COMMIT; so the messages of a session are never gone with the session row
\* left behind by a failed delete.
C2_DeleteAllOrNothing ==
  \A p \in Procs :
    req[p].op = "delete" =>
      /\ ~loc[p].committed =>
            /\ loc[p].txMessages \subseteq DOMAIN messages
            /\ loc[p].txSession => req[p].sid \in DOMAIN sessions
            /\ pc[p] = "done" => resp[p].status = 500
      /\ loc[p].committed =>
            /\ pc[p] = "done" /\ resp[p].status \in {200, 404}
            /\ loc[p].txMessages \cap DOMAIN messages = {}
            /\ loc[p].txSession => req[p].sid \notin DOMAIN sessions

\* a delete that failed after both DELETE statements ran, and kept the rows
C2_Witness ==
  \E p \in Procs :
    /\ Done(p, "delete") /\ resp[p].status = 500
    /\ loc[p].txSession /\ loc[p].txMessages # {}
    /\ loc[p].txMessages \subseteq DOMAIN messages
    /\ req[p].sid \in DOMAIN sessions

\* C3: after a successful deleteChatSession(id), getChatMessages(id) returns
\* the empty sequence: no chat_messages row with that session_id survives.
C3_DeleteThenListEmpty ==
  \A p \in Procs :
    Done(p, "delete") /\ resp[p].status = 200 =>
      OrderedBySentAt(req[p].sid) = {<<>>}

\* C4: getChatMessages (ORDER BY sent_at ASC) returns the two rows a
\* sendChatMessage call added in the order [user row, bot row], also when
\* both rows got the same timestamp: with no request in flight, no listing
\* shows the bot row of a turn before the turn's user row.
C4_RoundTripOrder ==
  \A p \in Procs :
    /\ Done(p, "list") /\ resp[p].status = 200
    /\ \A q \in Procs \ {p} : pc[q] = "idle"
    => \A i, j \in 1..Len(resp[p].rows) :
         /\ resp[p].rows[i].sender = "bot"
         /\ resp[p].rows[j].id = resp[p].rows[i].turn
         => j < i

\* C5: within one sendChatMessage call the user row is inserted before the
\* enrichment and the Reply Generator are called and before the bot insert
\* is attempted, the user row's sent_at is lower than or equal to the bot
\* row's, and a bot row of a turn never exists without the turn's user row.
C5_UserRowBeforeBotRow ==
  /\ \A p \in Procs :
       req[p].op = "send"
       /\ (loc[p].calledEnrich \/ loc[p].calledAI \/ loc[p].bot_id # 0
             \/ pc[p] \in {"s_enrich", "s_ai", "s_insert_bot"})
       => loc[p].message_id # 0 /\ loc[p].message_id < nextMessageId
  /\ \A i \in DOMAIN messages :
       messages[i].sender = "bot" =>
         /\ messages[i].turn \in DOMAIN messages
         /\ messages[messages[i].turn].sent_at <= messages[i].sent_at

\* session_id or message of a body is missing (an empty text counts)
Missing(v) == v.t = "undefined" \/ v.s = <<>>

\* the id was assigned to a session and its row is gone
Deleted(sid) == sid \in 1..(nextSessionId - 1) /\ sid \notin DOMAIN sessions

\* handler p takes a request in this step
Arrives(p, op) == pc[p] = "idle" /\ pc'[p] # "idle" /\ req'[p].op = op

\* C6: sendChatMessage rejects without side effects.  The step that takes
\* a request whose session_id or message is missing answers 400; when both
\* are there and no session row has the id, it answers 404 (500 when the
\* lookup itself fails); in both cases the tables are unchanged and neither
\* the enrichment lookup nor the Reply Generator has been called.
C6_SendRejects ==
  [][ \A p \in Procs :
        Arrives(p, "send") =>
          LET r == req'[p]
              rejected(status) ==
                /\ pc'[p] = "done" /\ resp'[p].status \in status
                /\ store' = store
                /\ loc'[p].message_id = 0
                /\ ~loc'[p].calledEnrich /\ ~loc'[p].calledAI
          IN /\ r.sid = 0 \/ Missing(r.message) => rejected({400})
             /\ r.sid # 0 /\ ~Missing(r.message) /\ r.sid \notin DOMAIN sessions
                  => rejected({404, 500})
             /\ pc'[p] = "done" /\ resp'[p].status \in {400, 404}
                  => r.sid = 0 \/ Missing(r.message) \/ r.sid \notin DOMAIN sessions
    ]_vars

\* a send to an id without a session row was answered 404 while the tables
\* hold rows
C6_Witness ==
  \E p \in Procs :
    /\ Done(p, "send") /\ resp[p].status = 404
    /\ ~Missing(req[p].message) /\ req[p].sid \notin DOMAIN sessions
    /\ loc[p].message_id = 0

\* C7: when the reply path of sendChatMessage throws after the user row was
\* inserted, the call does not fail.  Every answer given after the user row
\* was inserted is a success; for a replying sender it carries the id of the
\* stored user message and either the reply or the error flag, never both;
\* with the error flag no bot row of the turn is in the table, and the user
\* row is still there unless its session was deleted meanwhile.
C7_ReplyPathFailure ==
  \A p \in Procs :
    Done(p, "send") /\ loc[p].message_id # 0 =>
      /\ resp[p].status = 200
      /\ resp[p].id = loc[p].message_id
      /\ loc[p].replies => (resp[p].error # resp[p].hasReply)
      /\ resp[p].error =>
           /\ loc[p].replies
           /\ BotRowsOf(loc[p].message_id) = {}
           /\ req[p].sid \in DOMAIN sessions =>
                /\ loc[p].message_id \in DOMAIN messages
                /\ messages[loc[p].message_id].sender = "user"
                /\ messages[loc[p].message_id].session_id = req[p].sid
                /\ messages[loc[p].message_id].message = req[p].message.s

\* the bot insert failed after the Reply Generator had answered
C7_Witness ==
  \E p \in Procs :
    /\ Done(p, "send") /\ resp[p].error /\ loc[p].calledAI
    /\ loc[p].aiReply # <<>>
    /\ loc[p].message_id \in DOMAIN messages
    /\ BotRowsOf(loc[p].message_id) = {}

\* C8 as stated: when the upstream language-model call fails during
\* sendChatMessage, only the user message persists and no bot row is stored
\* for that turn.
C8_UpstreamFailureLeavesNoBotRow ==
  \A p \in Procs :
    Done(p, "send") /\ loc[p].upstream = "fails" => BotRowsOf(loc[p].message_id) = {}

\* C8: messages are created in pairs per turn except when the reply path
\* throws.  A sendChatMessage of a replying sender that has answered left
\* its turn without a bot row exactly when it answered with the error flag;
\* when the upstream language-model call failed and the bot insert went
\* through, the turn has its bot row, carrying the fixed apology of
\* chatWithOpenAI.
C8_PairsUnlessReplyPathThrows ==
  \A p \in Procs :
    Done(p, "send") /\ loc[p].message_id # 0 /\ loc[p].replies =>
      /\ resp[p].error <=> BotRowsOf(loc[p].message_id) = {}
      /\ ~resp[p].error =>
           /\ BotRowsOf(loc[p].message_id) = {loc[p].bot_id}
           /\ messages[loc[p].bot_id].message = resp[p].reply
           /\ messages[loc[p].bot_id].session_id = req[p].sid
           /\ loc[p].upstream = "fails" => resp[p].reply = Overloaded

\* the upstream call failed and the turn got its bot row
C8_Witness ==
  \E p \in Procs :
    /\ Done(p, "send") /\ loc[p].upstream = "fails" /\ resp[p].hasReply
    /\ BotRowsOf(loc[p].message_id) = {loc[p].bot_id}
    /\ messages[loc[p].bot_id].message = Overloaded

\* decimal digits only
IsIntegerText(s) == s # <<>> /\ \A i \in 1..Len(s) : IsDigit(s[i])

\* C9: createChatSession answers 400 when user_id is missing or is not an
\* integer and 404 when it is an integer with no users row, in both cases
\* inserting nothing; otherwise it inserts exactly one session row with that
\* user_id and ended_at null and returns that user_id and the assigned id.
C9_CreateSession ==
  \A p \in Procs :
    Done(p, "create") /\ resp[p].status # 500 =>
      LET u == req[p].user_id IN
      IF u.t = "undefined" \/ ~IsIntegerText(u.s)
      THEN resp[p].status = 400 /\ resp[p].id = 0
      ELSE IF DigitsValue(u.s, 0) \notin Users
      THEN resp[p].status = 404 /\ resp[p].id = 0
      ELSE /\ resp[p].status = 200
           /\ resp[p].user_id = DigitsValue(u.s, 0)
           /\ resp[p].id = nextSessionId - 1
           /\ resp[p].id \in DOMAIN sessions
           /\ sessions[resp[p].id].user_id = DigitsValue(u.s, 0)
           /\ sessions[resp[p].id].ended_at = 0

\* C10: the lifecycle of a session is created -> (optionally) ended ->
\* deleted.  No step sets the ended_at of a row back to null; no step brings
\* back the row of a deleted id, and the ids assigned only grow; an
\* endChatSession or a sendChatMessage that arrives for a deleted id is
\* answered 404 (500 when its statement fails, 400 for a send without a
\* message), and a deleteChatSession that commits for a deleted id is
\* answered 404.
C10_Lifecycle ==
  [][ /\ \A sid \in DOMAIN sessions \cap DOMAIN sessions' :
           sessions[sid].ended_at # 0 => sessions'[sid].ended_at # 0
      /\ \A sid \in 1..(nextSessionId - 1) : Deleted(sid) => sid \notin DOMAIN sessions'
      /\ nextSessionId' >= nextSessionId
      /\ DOMAIN sessions' \subseteq DOMAIN sessions \cup {nextSessionId}
      /\ \A p \in Procs :
           /\ Arrives(p, "end") /\ Deleted(req'[p].sid)
                => pc'[p] = "done" /\ resp'[p].status \in {404, 500}
           /\ Arrives(p, "send") /\ Deleted(req'[p].sid)
                => pc'[p] = "done" /\ resp'[p].status \in {400, 404, 500}
           /\ req[p].op = "delete" /\ pc[p] = "d_commit" /\ loc'[p].committed
              /\ Deleted(req[p].sid)
                => resp'[p].status = 404
    ]_vars

\* session 1 was deleted and a later request for its id was answered 404
C10_Witness ==
  /\ Deleted(1)
  /\ \E p \in Procs :
       /\ pc[p] = "done" /\ req[p].op \in {"end", "send", "delete"}
       /\ req[p].sid = 1 /\ resp[p].status = 404

\* C11: endChatSession(id) sets ended_at of exactly the session with that
\* id and changes no other session and no message; when no session row has
\* that id it answers 404 and the store is unchanged (as it is when the
\* UPDATE fails and the answer is 500).
C11_EndSessionFrame ==
  [][ \A p \in Procs :
        Arrives(p, "end") =>
          LET sid == req'[p].sid IN
          /\ pc'[p] = "done"
          /\ messages' = messages
          /\ nextSessionId' = nextSessionId /\ nextMessageId' = nextMessageId
          /\ DOMAIN sessions' = DOMAIN sessions
          /\ \A i \in DOMAIN sessions \ {sid} : sessions'[i] = sessions[i]
          /\ IF sid \in DOMAIN sessions
             THEN \/ /\ resp'[p].status = 200
                     /\ sessions'[sid].ended_at = now' /\ now' >= now /\ now' # 0
                     /\ sessions'[sid].user_id = sessions[sid].user_id
                     /\ sessions'[sid].started_at = sessions[sid].started_at
                  \/ resp'[p].status = 500 /\ sessions' = sessions
             ELSE resp'[p].status \in {404, 500} /\ sessions' = sessions
    ]_vars

\* a session was ended while another session stayed active and messages
\* were in the table
C11_Witness ==
  \E p \in Procs :
    /\ Done(p, "end") /\ resp[p].status = 200
    /\ req[p].sid \in DOMAIN sessions /\ sessions[req[p].sid].ended_at # 0
    /\ \E i \in DOMAIN sessions \ {req[p].sid} : sessions[i].ended_at = 0
    /\ messages # <<>>

\* C12: deleteChatSession answers 404 exactly when its DELETE on
\* chat_sessions affected zero rows, which is when no session row had the
\* id as the statement ran, and answers 200 exactly when its commit removed
\* the one session row; a delete of an id whose row was already deleted
\* answers 404 (500 when a statement fails, the store then unchanged).
C12_DeleteNotFound ==
  [][ \A p \in Procs :
        /\ pc[p] = "d_del_sess" /\ pc'[p] = "d_commit"
             => /\ loc'[p].affectedRows = (IF req[p].sid \in DOMAIN sessions THEN 1 ELSE 0)
                /\ Deleted(req[p].sid) => loc'[p].affectedRows = 0
        /\ pc[p] = "d_commit" /\ pc'[p] = "done"
             => LET sid == req[p].sid
                    removed == {i \in DOMAIN sessions : i \notin DOMAIN sessions'} IN
                /\ resp'[p].status \in {200, 404}
                /\ resp'[p].status = 404 <=> loc[p].affectedRows = 0
                /\ resp'[p].status = 404 <=> removed = {}
                /\ resp'[p].status = 200 <=> removed = {sid}
        /\ req[p].op = "delete" /\ pc[p] # "done" /\ pc'[p] = "done"
           /\ Deleted(req[p].sid)
             => resp'[p].status \in {404, 500} /\ sessions' = sessions
    ]_vars

\* session 1 was deleted by an earlier request and a second delete of id 1
\* has been answered 404
C12_Witness ==
  \E p \in Procs :
    /\ Done(p, "delete") /\ req[p].sid = 1 /\ resp[p].status = 404
    /\ Deleted(1) /\ loc[p].committed /\ loc[p].affectedRows = 0
    /\ served = 2

\* C13: getUserChatSessions(userId) answers with exactly the session rows
\* whose user_id is userId, each once, with started_at descending, and with
\* an empty list (a success) when the user has no session or does not
\* exist; getChatMessages(sessionId) answers with exactly the message rows
\* of that session, each once, with sent_at ascending.
C13_Listings ==
  \A p \in Procs :
    /\ Done(p, "sessions") /\ resp[p].status # 500 =>
         LET rows == resp[p].sessions IN
         /\ resp[p].status = 200
         /\ \A k, l \in 1..Len(rows) : k # l => rows[k].id # rows[l].id
         /\ {rows[k].id : k \in 1..Len(rows)} =
              {i \in DOMAIN sessions : sessions[i].user_id = req[p].user}
         /\ \A k \in 1..Len(rows) : rows[k] = SessionRow(rows[k].id)
         /\ \A k \in 1..(Len(rows) - 1) : rows[k].started_at >= rows[k + 1].started_at
    /\ Done(p, "list") /\ resp[p].status # 500 =>
         LET rows == resp[p].rows IN
         /\ resp[p].status = 200
         /\ \A k, l \in 1..Len(rows) : k # l => rows[k].id # rows[l].id
         /\ {rows[k].id : k \in 1..Len(rows)} =
              {i \in DOMAIN messages : messages[i].session_id = req[p].sid}
         /\ \A k \in 1..Len(rows) : rows[k] = RowOf(rows[k].id)
         /\ \A k \in 1..(Len(rows) - 1) : rows[k].sent_at <= rows[k + 1].sent_at

\* both users own a session; the listing of one user has been answered with
\* that user's session and without the other's
C13_Witness ==
  \E p \in Procs :
    /\ Done(p, "sessions") /\ resp[p].status = 200
    /\ Len(resp[p].sessions) = 1
    /\ \E i \in DOMAIN sessions : sessions[i].user_id # req[p].user

\* the answers a read request can get from the tables as they are
StatsNow ==
  [ totalSessions |-> Cardinality(DOMAIN sessions),
    totalMessages |-> Cardinality(DOMAIN messages),
    activeUsers |-> Cardinality({sessions[i].user_id : i \in DOMAIN sessions}),
    averageMessagesPerSession |-> Average(MessageCounts) ]

\* C14: getUserChatSessions, getChatMessages and getChatStats are read-only
\* and idempotent: a step of one of them leaves both tables and the id
\* counters as they were, and the answer it gives is the only answer the
\* same call can get from the unchanged tables, so that a second call
\* returns the same result.
C14_ReadOnlyIdempotent ==
  [][ \A p \in Procs :
        req'[p].op \in {"sessions", "list", "stats"} /\ pc[p] # "done" =>
          /\ store' = store
          /\ pc'[p] = "done" /\ resp'[p].status = 200 =>
               /\ req'[p].op = "sessions" =>
                    OrderedByStartedAt(req'[p].user) = {resp'[p].sessions}
               /\ req'[p].op = "list" =>
                    OrderedBySentAt(req'[p].sid) = {resp'[p].rows}
               /\ req'[p].op = "stats" => resp'[p].stats = StatsNow
    ]_vars

\* C14, the part that holds: the read handlers change no table, and the
\* statistics of an unchanged store are the same at every call.
C14_ReadOnly ==
  [][ \A p \in Procs :
        req'[p].op \in {"sessions", "list", "stats"} /\ pc[p] # "done" =>
          /\ store' = store
          /\ pc'[p] = "done" /\ resp'[p].status = 200 /\ req'[p].op = "stats" =>
               resp'[p].stats = StatsNow
    ]_vars

\* C15: getChatStats on a quiescent store answers with totalSessions = the
\* number of session rows, totalMessages = the number of message rows,
\* activeUsers = the number of distinct users owning a session, and an
\* average that is the mean number of messages per session, totalMessages /
\* totalSessions (0 when there are no messages).
C15_Stats ==
  \A p \in Procs :
    Done(p, "stats") /\ resp[p].status = 200 =>
      LET stats == resp[p].stats
          avg == stats.averageMessagesPerSession IN
      /\ stats.totalSessions = Cardinality(DOMAIN sessions)
      /\ stats.totalMessages = Cardinality(DOMAIN messages)
      /\ stats.activeUsers =
           Cardinality({u \in Owners : \E i \in DOMAIN sessions : sessions[i].user_id = u})
      /\ DOMAIN messages = {} => avg.num = 0
      /\ DOMAIN messages # {} /\ DOMAIN sessions # {} =>
           avg.num * Cardinality(DOMAIN sessions) = Cardinality(DOMAIN messages) * avg.den

\* C15, the part that holds: the three counts are as claimed, and the
\* average is taken over the session ids that have a message row.
C15_StatsAsComputed ==
  \A p \in Procs :
    Done(p, "stats") /\ resp[p].status = 200 =>
      LET stats == resp[p].stats
          avg == stats.averageMessagesPerSession
          withMessages == {messages[i].session_id : i \in DOMAIN messages} IN
      /\ stats.totalSessions = Cardinality(DOMAIN sessions)
      /\ stats.totalMessages = Cardinality(DOMAIN messages)
      /\ stats.activeUsers =
           Cardinality({u \in Owners : \E i \in DOMAIN sessions : sessions[i].user_id = u})
      /\ DOMAIN messages = {} => avg.num = 0
      /\ DOMAIN messages # {} =>
           avg.num * Cardinality(withMessages) = Cardinality(DOMAIN messages) * avg.den

\* C16: Facebook webhook verification.  For every query and every
\* configuration the answer is 200 with the challenge as its body exactly
\* when mode is 'subscribe' and verify_token equals the configured secret
\* (FB_VERIFY_TOKEN, or the built-in default when that is unset or empty);
\* every other request, whatever its other parameters, is answered 403.
C16_Verification ==
  verify.pc = "done" =>
    LET secret == IF verify.env.t = "string" /\ verify.env.s # <<>>
                  THEN verify.env.s ELSE <<"b","o","_","s","h","i","p">>
        match == /\ verify.mode.t = "string"
                 /\ verify.mode.s = <<"s","u","b","s","c","r","i","b","e">>
                 /\ verify.token.t = "string" /\ verify.token.s = secret
    IN /\ verify.status \in {200, 403}
       /\ verify.status = 200 <=> match
       /\ verify.status = 200 => verify.body = verify.challenge
       /\ verify.status = 403 => verify.body # verify.challenge

\* a subscription with the configured token was answered 200 with the
\* challenge
C16_Witness ==
  /\ verify.pc = "done" /\ verify.status = 200
  /\ verify.env = Str(<<"s","3","c">>) /\ verify.token = verify.env
  /\ verify.body = Str(<<"x","y","z">>)

\* C17: the Facebook POST webhook is fire-and-forget.  For a page object
\* with an entry list the step that answers sends 200 'EVENT_RECEIVED' while
\* no entry has its reply yet and no send has been made; the answer never
\* changes afterwards, whatever the entries' generations and sends do.  A
\* body whose object is not 'page' is answered 404 and causes no reply
\* generation and no send, then or later.  (A page object without an entry
\* list is answered 500.)
C17_FireAndForget ==
  [][ /\ fb.pc = "idle" /\ fb'.pc # "idle" =>
           LET work == fb'.work IN
           /\ fb'.object = "page" /\ fb'.hasEntry =>
                /\ fb'.status = 200 /\ fb'.body = "EVENT_RECEIVED"
                /\ \A i \in 1..Len(work) :
                     /\ work[i].reply = <<>> /\ work[i].sends = <<>>
                     /\ work[i].state \in {"generating", "finished", "rejected"}
           /\ fb'.object = "page" /\ ~fb'.hasEntry => fb'.status = 500
           /\ fb'.object # "page" =>
                /\ fb'.status = 404
                /\ \A i \in 1..Len(work) : work[i].generated = 0 /\ work[i].sends = <<>>
      /\ fb.pc # "idle" /\ fb'.pc # "idle" =>
           /\ fb'.status = fb.status /\ fb'.body = fb.body
           /\ fb.status # 200 => fb'.work = fb.work
    ]_vars

\* the answer was 200, and afterwards one entry's reply was sent and
\* another entry's send failed
C17_Witness ==
  /\ fb.status = 200 /\ fb.body = "EVENT_RECEIVED"
  /\ \E i, j \in 1..Len(fb.work) :
       /\ fb.work[i].state = "finished" /\ fb.work[i].sends # <<>>
       /\ fb.work[j].error = "send"

\* C18: on the Facebook path a failure of the outbound send is caught by
\* the webhook handler and answered to the webhook caller with 500.
C18_SendFailureAnswered500 ==
  \A i \in 1..Len(fb.work) : fb.work[i].error = "send" => fb.status = 500

\* C19: handleWebhook processes every entry on its own, from its first
\* messaging event: an entry with a text message has exactly one reply
\* generation, on that text, and at most one send, to that event's sender;
\* an entry without a text message has no generation and no send; and the
\* failure of one entry leaves no other entry unprocessed: when the process
\* stops on a failed entry, every other entry has run to its end.
C19_EntriesIndependent ==
  fb.status = 200 =>
    \A i \in 1..Len(fb.work) :
      LET e == fb.entry[i]
          w == fb.work[i] IN
      /\ e.kind = "text" =>
           /\ w.generated = 1 /\ w.asked = e.text
           /\ Len(w.sends) <= 1
           /\ \A k \in 1..Len(w.sends) : w.sends[k].to = e.sender /\ w.sends[k].text = w.reply
      /\ e.kind = "notext" => w.generated = 0 /\ w.sends = <<>>
      /\ fb.pc = "exited" /\ w.error = "none" /\ e.kind # "malformed" =>
           w.state = "finished"

\* C19, the part that holds: one generation, on the entry's text, and at
\* most one send, to the entry's sender, per text entry; none for the
\* other entries.
C19_PerEntry ==
  fb.status = 200 =>
    \A i \in 1..Len(fb.work) :
      LET e == fb.entry[i]
          w == fb.work[i] IN
      /\ e.kind = "text" =>
           /\ w.generated = 1 /\ w.asked = e.text
           /\ Len(w.sends) <= 1
           /\ \A k \in 1..Len(w.sends) : w.sends[k].to = e.sender /\ w.sends[k].text = w.reply
      /\ e.kind # "text" => w.generated = 0 /\ w.sends = <<>>

\* C20: Zalo Personal webhook.  A request whose 'from' or 'message' is
\* absent (or empty, or 0) is answered 400 in the step that takes it, with
\* no Reply Generator call, no gateway send and no change of the session
\* and message tables; when both are there, {ok: 1} is answered only by the
\* step in which the gateway send completes, after the reply was generated
\* and posted to the sender.  No step of the handler touches the tables.
C20_ZaloPersonal ==
  [][ /\ store' = store
      /\ zp.pc = "idle" /\ zp'.pc # "idle" =>
           LET absent(v) == v.t = "undefined" \/ v.s = <<>> \/ (v.t = "number" /\ v.s = <<"0">>)
           IN IF absent(zp'.from) \/ absent(zp'.message)
              THEN /\ zp'.pc = "done" /\ zp'.status = 400 /\ ~zp'.ok
                   /\ ~zp'.calledAI /\ zp'.reply = <<>> /\ zp'.posted = <<>>
              ELSE /\ zp'.pc = "generating" /\ zp'.status = 0 /\ ~zp'.ok
                   /\ zp'.calledAI /\ zp'.posted = <<>>
      /\ zp'.ok /\ ~zp.ok =>
           /\ zp.pc = "sending" /\ zp'.pc = "done" /\ zp'.status = 200
           /\ zp.calledAI /\ zp.reply # <<>>
           /\ zp.posted = <<[to |-> zp.from, message |-> zp.reply]>>
           /\ zp'.posted = zp.posted
      /\ zp'.status = 200 => zp'.ok
      /\ zp.status = 400 /\ zp'.pc # "idle" => zp' = zp
    ]_vars

\* {ok: 1} was answered after the reply was generated and posted
C20_Witness ==
  /\ zp.pc = "done" /\ zp.ok /\ zp.status = 200
  /\ zp.posted = <<[to |-> Str(<<"U","1">>), message |-> CompletionText]>>

\* C27: every chat_messages row has sender 'user' or 'bot', whatever sender
\* values the sendChatMessage requests carried.
C27_SenderIsUserOrBot ==
  \A i \in DOMAIN messages : messages[i].sender \in {"user", "bot"}

\* C30: sendChatMessage does not look at ended_at.  A send with a message
\* for a session that has a row goes on to its INSERT whether or not the
\* session was ended (500 if the lookup fails); the INSERT adds the user
\* row to that session (500 and no row if it fails); and no step of a send
\* changes a session row, so ended_at stays as it was.
C30_SendIgnoresEnded ==
  [][ \A p \in Procs :
        /\ Arrives(p, "send") /\ req'[p].sid \in DOMAIN sessions
           /\ ~Missing(req'[p].message)
             => \/ pc'[p] = "s_insert_user"
                \/ pc'[p] = "done" /\ resp'[p].status = 500
        /\ pc[p] = "s_insert_user" /\ pc'[p] # pc[p]
             => \/ /\ DOMAIN messages' = DOMAIN messages \cup {nextMessageId}
                   /\ messages'[nextMessageId].session_id = req[p].sid
                \/ /\ pc'[p] = "done" /\ resp'[p].status = 500
                   /\ messages' = messages
        /\ req'[p].op = "send" /\ pc'[p] # pc[p] /\ pc[p] # "done"
             => sessions' = sessions
    ]_vars

\* a session was ended, and a send to it that inserted its user row later
\* than that has been answered with a reply, its bot row stored
C30_Witness ==
  \E p \in Procs :
    /\ Done(p, "send") /\ resp[p].status = 200 /\ resp[p].hasReply
    /\ req[p].sid \in DOMAIN sessions
    /\ sessions[req[p].sid].ended_at # 0
    /\ loc[p].message_id \in DOMAIN messages
    /\ messages[loc[p].message_id].sent_at > sessions[req[p].sid].ended_at
    /\ BotRowsOf(loc[p].message_id) # {}

\* C29: deleteChatSession gives back the pool connection it took on every
\* path: when it has answered it holds no connection, and the connections
\* checked out of the pool are exactly those held by handlers still
\* running, so none is lost to later requests.
C29_ConnectionReleased ==
  /\ \A p \in Procs : Done(p, "delete") => ~loc[p].hasConn
  /\ inUse = Cardinality({p \in Procs : loc[p].hasConn})

\* C29, the part that holds: a delete whose transaction began and whose
\* rollback, if any, succeeded has released its connection when it answers.
C29_ReleasedAfterTransaction ==
  \A p \in Procs :
    Done(p, "delete") /\ loc[p].hasConn =>
      /\ resp[p].status = 500
      /\ ~loc[p].committed

\* C21: a failure of the outbound send on the Zalo OA path is swallowed: the
\* webhook response of a request whose send failed is not an error.
C21_ZaloSendFailureSwallowed ==
  zalo.pc = "done" /\ zalo.error = "send" => zalo.status < 400

\* C22: chatWithOpenAI never fails outward: for every message and context a
\* call that has returned has returned a non-empty string and has not
\* thrown; when the upstream call failed, the string is the fixed apology of
\* the catch branch.
C22_NeverThrows ==
  ai.pc = "returned" =>
    /\ ~ai.threw
    /\ ai.value \in {CompletionText, NotUnderstood, Overloaded}
    /\ ai.value # <<>>
    /\ ai.outcome = "fails" => ai.value = Overloaded
    /\ ~ai.calledUpstream => ai.value = Overloaded

C22_Witness ==
  /\ ai.pc = "returned" /\ ai.outcome = "fails" /\ ai.value = Overloaded
  /\ Len(ai.request) = 3

\* C23: the chat log is a bounded ring buffer.  When userChat requests do
\* not overlap, the log never holds more than 1000 entries; the array a
\* request writes is the array it found with the turn's user entry and then
\* its bot entry at the end, minus as many of the oldest entries as exceed
\* 1000, in the same order; that array becomes the content of the file;
\* and the admin listing returns the file's entries as they are.
C23_RingBuffer ==
  [][ /\ LogLength(logs'.data) <= LogLimit
      /\ \A p \in Procs :
           /\ chat[p].pc = "opening" /\ chat'[p].pc = "writing" /\ ~chat[p].readFailed
                => LET old == logs.data
                       new == chat[p].logs
                       n == LogLength(old)
                       dropped == IF n + 2 > LogLimit THEN n + 2 - LogLimit ELSE 0
                   IN /\ LogLength(new) = n + 2 - dropped
                      /\ \A i \in 1..LogLength(new) :
                           EntryAt(new, i) =
                             IF i + dropped <= n THEN EntryAt(old, i + dropped)
                             ELSE [ from |-> IF i + dropped = n + 1 THEN "user" ELSE "bot",
                                    content |-> IF i + dropped = n + 1
                                                THEN chat[p].message
                                                ELSE Str(chat[p].aiReply),
                                    turn |-> chat[p].turn ]
           /\ chat[p].pc = "writing" /\ chat'[p].logged
                => /\ logs'.exists /\ logs'.valid
                   /\ logs'.data = chat[p].logs
      /\ admin'.op = "messages" => admin'.body = IF logs.exists /\ logs.valid
                                                 THEN logs.data ELSE EmptyLog
    ]_vars

\* a full log of 500 turns after two more turns: 1000 entries, the oldest
\* now the user entry of turn 3, the newest the bot entry of turn 502
C23_Witness ==
  /\ logs.hist = LogLimit \div 2 /\ logs.writes = <<LogLimit \div 2 + 1, LogLimit \div 2 + 2>>
  /\ logs.exists /\ logs.valid /\ ~logs.lost
  /\ LogLength(logs.data) = LogLimit
  /\ EntryAt(logs.data, 1).turn = 3 /\ EntryAt(logs.data, 1).from = "user"
  /\ EntryAt(logs.data, LogLimit).turn = LogLimit \div 2 + 2
  /\ EntryAt(logs.data, LogLimit).from = "bot"

\* C25: in userChat a text-to-speech failure, or createVoiceMp3 not being
\* loaded, does not abort the reply: the handler goes on to log the turn
\* with voice_url null, a completed log write has put the turn's two
\* entries at the end of the file, and the response is 200 with the reply
\* text and that voice_url whether the log write succeeded or failed.
C25_TtsAndLogFailuresAbsorbed ==
  [][ \A p \in Procs :
        /\ chat[p].pc = "generating" /\ chat'[p].pc # "generating"
             => /\ chat'[p].pc = "reading"
                /\ chat'[p].aiReply \in {CompletionText, NotUnderstood, Overloaded}
                /\ chat'[p].tts # "ok" => chat'[p].voice_url = "null"
        /\ chat[p].pc \in {"reading", "opening", "writing"} /\ chat'[p].pc = "done"
             => /\ chat'[p].status = 200
                /\ chat'[p].reply = chat[p].aiReply
                /\ chat'[p].voice_url = chat[p].voice_url
        /\ chat[p].pc = "writing" /\ chat'[p].logged
             => LET n == LogLength(logs'.data) IN
                /\ logs'.exists /\ logs'.valid /\ n >= 2
                /\ EntryAt(logs'.data, n - 1) =
                     [from |-> "user", content |-> chat[p].message, turn |-> chat[p].turn]
                /\ EntryAt(logs'.data, n) =
                     [from |-> "bot", content |-> Str(chat[p].aiReply),
                      turn |-> chat[p].turn]
    ]_vars

\* the speech synthesis failed, the reply was sent and the turn is in the log
C25_Witness ==
  \E p \in Procs :
    /\ chat[p].pc = "done" /\ chat[p].path = "chat" /\ chat[p].tts = "fails"
    /\ chat[p].status = 200 /\ chat[p].reply = CompletionText
    /\ chat[p].voice_url = "null" /\ chat[p].logged
    /\ logs.exists /\ logs.valid
    /\ EntryAt(logs.data, LogLength(logs.data)).turn = chat[p].turn

\* the array of p is what the log held before any request, plus p's turn
ReadBeforeAnyWrite(p) ==
  LET n == LogLength(chat[p].logs) IN
  /\ n > 2
  /\ EntryAt(chat[p].logs, n - 2).turn <= logs.hist

\* C24: when two userChat requests have both read the log before either
\* wrote it and both writes have completed, the log file holds exactly the
\* array of the request whose write completed last (the other turn is
\* lost), and no more than 1000 entries.
C24_LastWriterWins ==
  \A p, q \in Procs :
    ( /\ p # q
      /\ chat[p].pc = "done" /\ chat[p].logged /\ ReadBeforeAnyWrite(p)
      /\ chat[q].pc = "done" /\ chat[q].logged /\ ReadBeforeAnyWrite(q)
      /\ logs.writes = <<chat[p].turn, chat[q].turn>> )
    => /\ logs.exists /\ logs.valid
       /\ logs.data = chat[q].logs
       /\ LogLength(logs.data) <= LogLimit

\* the lost update, when the file still parses after both writes
C24_LostUpdate ==
  \E p, q \in Procs :
    /\ p # q
    /\ chat[p].pc = "done" /\ chat[p].logged /\ ReadBeforeAnyWrite(p)
    /\ chat[q].pc = "done" /\ chat[q].logged /\ ReadBeforeAnyWrite(q)
    /\ logs.writes = <<chat[p].turn, chat[q].turn>>
    /\ logs.valid /\ logs.data = chat[q].logs
    /\ LogLength(logs.data) = LogLimit
    /\ EntryAt(logs.data, LogLimit - 2).turn <= logs.hist

\* the menu strings of MenuInputs that are no JSON text
Unparsable ==
  { <<"undefined">>, <<>>, <<"{">>, <<"{", "a", "}">>, <<"{", "a", ":", "}">> }

\* the document each JSON text of MenuInputs denotes
Document(text) ==
  CASE text = <<"null">> -> [kind |-> "null", n |-> 0, members |-> <<>>]
    [] text = <<"1">> -> [kind |-> "number", n |-> 1, members |-> <<>>]
    [] text = <<"1.0">> -> [kind |-> "number", n |-> 1, members |-> <<>>]
    [] text = <<" ", "2", " ">> -> [kind |-> "number", n |-> 2, members |-> <<>>]
    [] text = <<"{", "}">> -> [kind |-> "object", n |-> 0, members |-> <<>>]
    [] text = <<"{", "a", ":", "1", "}">> ->
         [kind |-> "object", n |-> 0, members |->
            <<[key |-> "a", value |-> [kind |-> "number", n |-> 1, members |-> <<>>]]>>]
    [] text = <<"{", " ", "b", ":", "{", "}", "}">> ->
         [kind |-> "object", n |-> 0, members |->
            <<[key |-> "b", value |-> [kind |-> "object", n |-> 0, members |-> <<>>]]>>]
    [] OTHER ->
         [kind |-> "object", n |-> 0, members |->
            <<[key |-> "a", value |->
                 [kind |-> "object", n |-> 0, members |->
                    <<[key |-> "b",
                       value |-> [kind |-> "null", n |-> 0, members |-> <<>>]]>>]]>>]

\* C26: saveMenu answers 400 and leaves the menu file as it is exactly when
\* the menu string is no JSON text; a save that completed has replaced the
\* file, and a GET that reads the file then returns the document of the
\* posted text, nothing of the earlier menu; a GET that cannot read the
\* file answers 200 with an empty object.
C26_MenuSave ==
  [][ /\ admin.pc = "idle" /\ admin'.op = "save"
           => /\ menu' = menu
              /\ IF admin'.menu \in Unparsable
                 THEN admin'.pc = "done" /\ admin'.status = 400
                 ELSE admin'.pc = "saving" /\ admin'.status = 0
      /\ admin.pc = "saving" /\ admin'.status = 200
           => menu'.exists /\ menu'.posted = admin.menu
      /\ admin.pc = "saving" /\ admin'.status # 200
           => admin'.status = 500 /\ menu'.posted \in {menu.posted, <<>>}
      /\ admin.pc = "idle" /\ admin'.op = "get"
           => /\ admin'.status = 200 /\ menu' = menu
              /\ admin'.read = "ok" /\ menu.posted # <<>>
                   => admin'.body = Document(menu.posted)
              /\ admin'.read = "failed" \/ ~menu.exists
                   => admin'.body = [kind |-> "object", n |-> 0, members |-> <<>>]
    ]_vars

\* a GET after a save of {"b": {}} over the menu {"a": 2}
C26_Witness ==
  /\ admin.pc = "done" /\ admin.op = "get" /\ admin.read = "ok"
  /\ menu.posted = <<"{", " ", "b", ":", "{", "}", "}">>
  /\ menu.data # menu.posted
  /\ admin.body = Document(menu.posted)

\* C28: every request of a session or message handler and of the Facebook,
\* Zalo OA and Zalo Personal webhooks gets exactly one response: a handler
\* that has not answered has sent none, one that has answered has sent one
\* with a status, and a handler frame ends only after its response.
C28_ExactlyOneResponse ==
  [][ /\ \A p \in Procs :
           /\ pc'[p] = "done" => resp'[p].sent = 1 /\ resp'[p].status \in 200..599
           /\ pc'[p] # "done" => resp'[p].sent = 0
           /\ pc[p] # "idle" /\ pc'[p] = "idle" => pc[p] = "done" /\ resp[p].sent = 1
      /\ fb'.pc = "idle" => fb'.sent = 0
      /\ fb'.pc # "idle" => fb'.sent = 1 /\ fb'.status \in {200, 404, 500}
      /\ zalo'.pc \in {"idle", "generating", "sending"} => zalo'.sent = 0
      /\ zalo'.pc = "done" => zalo'.sent = 1 /\ zalo'.status \in {200, 500}
      /\ zalo.pc # "idle" /\ zalo'.pc = "idle" => zalo.pc = "done"
      /\ zp'.pc \in {"idle", "generating", "sending"} => zp'.sent = 0
      /\ zp'.pc = "done" => zp'.sent = 1 /\ zp'.status \in {200, 400, 500}
      /\ zp.pc # "idle" /\ zp'.pc = "idle" => zp.pc = "done"
    ]_vars

\* the outer catch of deleteChatSession has answered 500 after a rollback
C28_Witness ==
  \E p \in Procs :
    /\ Done(p, "delete") /\ resp[p].status = 500 /\ resp[p].sent = 1
    /\ ~loc[p].committed

====
